---- MODULE Spec2Model ----
(***************************************************************************)
(* Verification model of the gym workout bot (OnexChina/gym-voice-bot):    *)
(* the exercise name resolver (bot/services/nlp.py), the workout session   *)
(* handlers (bot/handlers/workout.py, bot/handlers/start.py) and the       *)
(* repository layer with the record tracker (bot/database/crud.py).        *)
(*                                                                         *)
(* Conventions                                                             *)
(*  - a Python str is a sequence of one-character strings;                 *)
(*  - an optional number (reps, weight, id) uses None == -1 for None;      *)
(*  - an optional dict (a pending field of the FSM data) is a sequence of  *)
(*    length 0 (None) or 1 (the dict);                                     *)
(*  - weights and volumes are integers counted in 1/30000 kg, so that the  *)
(*    two-decimal NUMERIC columns (1 cent = 300 units), the Epley factor   *)
(*    (30 + reps) / 30 and the pound factor 0.453592 are all exact.        *)
(***************************************************************************)
EXTENDS Integers, Sequences, FiniteSets, TLC

None == -1

\* ------------------------------------------------------------------------
\* Strings
\* ------------------------------------------------------------------------

\* str.lower() on the characters the model uses
LowerChar(c) ==
    CASE c = "A" -> "a"
      [] c = "B" -> "b"
      [] c = "X" -> "x"
      [] OTHER -> c

LowerStr(s) == [i \in 1..Len(s) |-> LowerChar(s[i])]

RECURSIVE LStrip(_)
LStrip(s) == IF s = <<>> THEN s
             ELSE IF Head(s) = " " THEN LStrip(Tail(s)) ELSE s

RECURSIVE RStrip(_)
RStrip(s) == IF s = <<>> THEN s
             ELSE IF s[Len(s)] = " " THEN RStrip(SubSeq(s, 1, Len(s) - 1)) ELSE s

\* str.strip()
Strip(s) == RStrip(LStrip(s))

\* Python's "a in b" for strings
IsSubstr(a, b) ==
    \E i \in 0..(Len(b) - Len(a)) : SubSeq(b, i + 1, i + Len(a)) = a

\* the literal "Упражнение" the handlers fall back to for an empty name
DefaultName == <<"U">>

\* x or "Упражнение"
OrDefault(s) == IF s = <<>> THEN DefaultName ELSE s

\* ------------------------------------------------------------------------
\* Exercise name resolver (bot/services/nlp.py)
\* ------------------------------------------------------------------------

_normalize_name(name) == IF name = <<>> THEN <<>> ELSE LowerStr(Strip(name))

\* the first synonym loop of match_exercise: does any synonym match
SynonymMatches(norm_query, synonyms) ==
    \E k \in 1..Len(synonyms) :
        LET norm_syn == _normalize_name(synonyms[k])
        IN  \/ norm_query = norm_syn
            \/ IsSubstr(norm_query, norm_syn)
            \/ IsSubstr(norm_syn, norm_query)

\* a resolver without the equality tier: an equal name is only a substring
CandidateOfNoExact(norm_query, ex) ==
    LET norm_name == _normalize_name(ex.name)
        norm_en   == _normalize_name(ex.name_en)
    IN  IF IsSubstr(norm_query, norm_name) \/ IsSubstr(norm_name, norm_query)
        THEN << [score |-> 95, exercise_id |-> ex.id, name |-> ex.name, confidence |-> 90] >>
        ELSE IF IsSubstr(norm_query, norm_en) \/ IsSubstr(norm_en, norm_query)
        THEN << [score |-> 90, exercise_id |-> ex.id, name |-> ex.name, confidence |-> 85] >>
        ELSE IF SynonymMatches(norm_query, ex.synonyms)
        THEN << [score |-> 85, exercise_id |-> ex.id, name |-> ex.name, confidence |-> 80] >>
        ELSE << >>

\* the candidate (score, dict) one catalog entry contributes, as a sequence
\* of length 0 or 1; scores and confidences are in hundredths
CandidateOf(norm_query, ex) ==
    LET norm_name == _normalize_name(ex.name)
        norm_en   == _normalize_name(ex.name_en)
    IN  IF norm_query = norm_name \/ norm_query = norm_en
        THEN << [score |-> 100, exercise_id |-> ex.id, name |-> ex.name, confidence |-> 100] >>
        ELSE IF IsSubstr(norm_query, norm_name) \/ IsSubstr(norm_name, norm_query)
        THEN << [score |-> 95, exercise_id |-> ex.id, name |-> ex.name, confidence |-> 90] >>
        ELSE IF IsSubstr(norm_query, norm_en) \/ IsSubstr(norm_en, norm_query)
        THEN << [score |-> 90, exercise_id |-> ex.id, name |-> ex.name, confidence |-> 85] >>
        ELSE IF SynonymMatches(norm_query, ex.synonyms)
        THEN << [score |-> 85, exercise_id |-> ex.id, name |-> ex.name, confidence |-> 80] >>
        ELSE << >>

RECURSIVE Candidates(_, _)
Candidates(norm_query, exercises_db) ==
    IF exercises_db = <<>> THEN <<>>
    ELSE CandidateOf(norm_query, Head(exercises_db))
         \o Candidates(norm_query, Tail(exercises_db))

\* an unstable insertion: c goes before the elements of its own score
RECURSIVE InsertByScoreUnstable(_, _)
InsertByScoreUnstable(sorted, c) ==
    IF sorted = <<>> THEN <<c>>
    ELSE IF Head(sorted).score > c.score
         THEN <<Head(sorted)>> \o InsertByScoreUnstable(Tail(sorted), c)
         ELSE <<c>> \o sorted

\* insert c after every element whose score is not lower: list.sort is stable
RECURSIVE InsertByScore(_, _)
InsertByScore(sorted, c) ==
    IF sorted = <<>> THEN <<c>>
    ELSE IF Head(sorted).score >= c.score
         THEN <<Head(sorted)>> \o InsertByScore(Tail(sorted), c)
         ELSE <<c>> \o sorted

RECURSIVE SortByScoreDesc(_)
SortByScoreDesc(cands) ==
    IF cands = <<>> THEN <<>>
    ELSE InsertByScore(SortByScoreDesc(SubSeq(cands, 1, Len(cands) - 1)), cands[Len(cands)])

StripScore(c) == [exercise_id |-> c.exercise_id, name |-> c.name, confidence |-> c.confidence]

MaxAlternatives == 5

match_exercise(exercise_name, exercises_db) ==
    LET miss == [exercise_id |-> None, name |-> exercise_name,
                 confidence |-> 0, alternatives |-> <<>>]
        norm_query == _normalize_name(exercise_name)
        sorted == SortByScoreDesc(Candidates(norm_query, exercises_db))
    IN  IF exercise_name = <<>> \/ exercises_db = <<>> THEN miss
        ELSE IF norm_query = <<>> THEN miss
        ELSE IF sorted = <<>> THEN miss
        ELSE [exercise_id  |-> sorted[1].exercise_id,
              name         |-> sorted[1].name,
              confidence   |-> sorted[1].confidence,
              alternatives |-> [i \in 1..(IF Len(sorted) - 1 < MaxAlternatives
                                          THEN Len(sorted) - 1 ELSE MaxAlternatives)
                                |-> StripScore(sorted[i + 1])]]

\* ------------------------------------------------------------------------
\* Numbers: floats, Decimal and the NUMERIC(.., 2) columns
\* ------------------------------------------------------------------------

\* n kilograms in model units (1/30000 kg)
Kg(n) == n * 30000

\* what a NUMERIC(10, 2) / NUMERIC(12, 2) column keeps of a non-negative
\* value: PostgreSQL rounds to the column's scale, half away from zero
RoundCent(x) == IF x = None THEN None ELSE ((x + 150) \div 300) * 300

\* bot/services/nlp.py convert_units: pounds are multiplied by 0.453592
\* (weights are whole multiples of 1/30 kg, so the product is exact)
convert_units(weight, unit) ==
    IF unit = "lb" \/ unit = "lbs" THEN ((weight \div 1000) * 453592) \div 1000
    ELSE weight

\* the Epley formula applied to every repetition count
calculate_1rm_unguarded(reps, weight) == (weight * (30 + reps)) \div 30

\* bot/database/crud.py calculate_1rm (Epley), reps an int, weight in units
calculate_1rm(reps, weight) ==
    IF reps <= 0 THEN weight
    ELSE IF reps = 1 THEN weight
    ELSE (weight * (30 + reps)) \div 30

\* ------------------------------------------------------------------------
\* The exercise catalog file (data/exercises.json) and its view
\* ------------------------------------------------------------------------

EmptyCatalog == << >>

GymCatalog ==
    << [name |-> <<"A", "b">>, name_en |-> <<"p">>, synonyms |-> << <<"x">> >>],
       [name |-> <<"c">>,      name_en |-> << >>,   synonyms |-> << <<"x", "y">> >>] >>

\* bot/handlers/workout.py _exercises_db_with_ids: id is the index, name_en
\* is not copied
_exercises_db_with_ids(raw) ==
    [i \in 1..Len(raw) |->
        [id |-> i - 1, name |-> raw[i].name, name_en |-> << >>,
         synonyms |-> raw[i].synonyms]]

\* ------------------------------------------------------------------------
\* Language understanding (bot/services/nlp.py parse_workout_message)
\* ------------------------------------------------------------------------

\* the answer of the language model: "error" (timeout, API error, invalid
\* JSON) or a JSON object
_default_response ==
    [exercises |-> << >>, clarification_needed |-> TRUE,
     clarification_question |-> << <<"?">> >>]

\* one set of the model's JSON -> one normalised set
ParseSet(s) ==
    [reps    |-> s.reps,
     weight  |-> IF s.weight # None /\ s.weight_unit # ""
                 THEN convert_units(s.weight, s.weight_unit) ELSE s.weight,
     comment |-> Strip(s.comment)]

\* a normalisation that keeps the name as the model reported it instead of
\* replacing it by the name of the best catalog match
ParseItemKeepsName(item, exercises_db) ==
    [name |-> OrDefault(Strip(item.name)),
     sets |-> [k \in 1..Len(item.sets) |-> ParseSet(item.sets[k])]]

\* one exercise item of the model's JSON -> one normalised exercise: the
\* name is replaced by the name of the best catalog match, when there is one
ParseItem(item, exercises_db) ==
    LET name  == OrDefault(Strip(item.name))
        match == IF exercises_db # << >> THEN match_exercise(name, exercises_db)
                 ELSE [exercise_id |-> None, name |-> name, confidence |-> 50,
                       alternatives |-> << >>]
    IN  [name |-> IF match.name # << >> THEN match.name ELSE name,
         sets |-> [k \in 1..Len(item.sets) |-> ParseSet(item.sets[k])]]

parse_workout_message(text, exercises_db, llm) ==
    IF Strip(text) = << >> THEN _default_response
    ELSE IF llm.kind = "error" THEN _default_response
    ELSE [exercises |-> [k \in 1..Len(llm.exercises) |->
                            ParseItem(llm.exercises[k], exercises_db)],
          clarification_needed   |-> llm.clarification_needed,
          clarification_question |->
              IF llm.clarification_question = << >> THEN << >>
              ELSE IF Strip(llm.clarification_question[1]) = << >> THEN << >>
              ELSE << Strip(llm.clarification_question[1]) >>]

\* ------------------------------------------------------------------------
\* Inputs: what the user types and what the language model answers
\* ------------------------------------------------------------------------

\* CLARIFICATION_REFUSAL (transliterated)
CLARIFICATION_REFUSAL ==
    { <<"n","e","t">>, <<"n","e"," ","t","o">>, <<"n","o">>, <<"n","e">>,
      <<"d","r","u","g","o","e">>,
      <<"n","i","c","h","e","g","o"," ","i","z"," ","e","t","o","g","o">> }

\* message.text of a text message that no earlier handler (menu buttons)
\* takes: a refusal word (no catalog name contains it), a catalog name
Texts == { <<"n","o">>, <<"c">> }

\* the comment fragments "минут" / "minute" that mark a set as a duration
DurationWords == { <<"m","i","n","u","t">>, <<"m","i","n","u","t","e">> }

IsDuration(comment) == \E d \in DurationWords : IsSubstr(d, LowerStr(comment))

JsonSet(reps, weight, unit, comment) ==
    [reps |-> reps, weight |-> weight, weight_unit |-> unit, comment |-> comment]

\* "10 na 80, 8 na 85": volume 1480 kg, heaviest set 85 kg
SetsBench == << JsonSet(10, Kg(80), "kg", << >>), JsonSet(8, Kg(85), "kg", << >>) >>
SetsLight == << JsonSet(10, Kg(80), "", << >>) >>
\* a working set and a set without added weight
SetsHeavy == << JsonSet(5, Kg(90), "kg", << >>), JsonSet(12, 0, "kg", << >>) >>
\* 10 reps with 100 lb: 45.3592 kg
SetsPounds == << JsonSet(10, Kg(100), "lb", << >>) >>
\* "10 na 80" and a set of which neither reps nor weight was understood
SetsBlank == << JsonSet(10, Kg(80), "", << >>), JsonSet(None, None, "", << >>) >>
\* 5 reps with 80 kg: a one-rep maximum of 93.333... kg
SetsFive == << JsonSet(5, Kg(80), "kg", << >>) >>
\* 30 minutes on the treadmill: no weight, the duration in reps
SetsCardio == << JsonSet(30, None, "", <<" ","m","i","n","u","t">>) >>

JsonAnswer(exercises, needed, question) ==
    [kind |-> "json", exercises |-> exercises,
     clarification_needed |-> needed, clarification_question |-> question]

LlmAnswers ==
    { [kind |-> "error"],
      JsonAnswer(<< [name |-> <<"a","b">>, sets |-> SetsLight] >>, TRUE, << <<"k","g","?">> >>),
      JsonAnswer(<< [name |-> <<"a","b">>, sets |-> SetsBench] >>, FALSE, << >>),
      JsonAnswer(<< [name |-> <<"q">>, sets |-> SetsLight] >>, FALSE, << >>),
      JsonAnswer(<< [name |-> <<"a","b"," ">>, sets |-> SetsHeavy] >>, TRUE, << >>),
      JsonAnswer(<< [name |-> <<"c">>, sets |-> SetsPounds] >>, FALSE, << >>),
      JsonAnswer(<< [name |-> <<"c">>, sets |-> SetsCardio],
                    [name |-> <<"a","b">>, sets |-> SetsLight] >>, FALSE, << >>) }

\* ------------------------------------------------------------------------
\* State
\* ------------------------------------------------------------------------

\* how many Workout rows / WorkoutExercise rows the sequences of the store
\* hand out before the model stops creating new ones
MaxWorkouts == 2
MaxWorkoutExercises == 3
MaxCustomExercises == 1

VARIABLES
    exercises_json,     \* the parsed data/exercises.json (cached for the process)
    fsm_state,          \* aiogram FSM state of the user's chat
    data,               \* aiogram FSM data of the user's chat
    workouts,           \* table workouts
    workout_exercises,  \* table workout_exercises, each row with its sets
    exercises,          \* table exercises
    records,            \* table records
    store_up,           \* the database answers (FALSE: every statement raises)
    next_workout_id,    \* sequence workouts_id_seq
    next_we_id,         \* sequence workout_exercises_id_seq
    reply,              \* the last thing the bot showed to the user
    new_records,        \* the new records of the last summary
    finished,           \* ids of the workouts that went through finish
    alt_prompts,        \* alternatives prompts shown for the exercise being clarified
    last_text,          \* the language model's answer to the text message the last
                        \* handler run was given (none when it was another handler)
    call,               \* a direct call of a function: its arguments (a sequence
                        \* of length 0 or 1); under SpecOverlap the database
                        \* calls in flight, one per handler task
    result              \* the value that call returned (length 0 or 1)

session_vars == << exercises_json, fsm_state, data, workouts, workout_exercises,
                   exercises, records, store_up, next_workout_id, next_we_id, reply,
                   new_records, finished, alt_prompts, last_text >>

function_vars == << call, result >>

vars == << session_vars, function_vars >>

\* WorkoutStates and the default state None
FsmStates == { "none", "active", "waiting_exercise", "waiting_exercise_name",
               "waiting_comment" }

\* the only user of the chat
UserId == 7

\* FSM data after state.clear()
EmptyData ==
    [workout |-> << >>, pending_clarification |-> << >>,
     pending_unknown_exercise |-> << >>, last_parsed_data |-> << >>,
     pending_sets |-> << >>, pending_workout_id |-> None,
     pending_comment_we_id |-> None]

\* bot/utils/init_exercises.py seed_exercises_from_json, run at deployment:
\* one row of table exercises per named catalog entry
RECURSIVE seed_exercises_from_json(_, _)
seed_exercises_from_json(raw, table) ==
    IF raw = << >> THEN table
    ELSE LET name == Strip(Head(raw).name)
         IN  seed_exercises_from_json(Tail(raw),
                 IF name = << >> \/ (\E k \in 1..Len(table) : table[k].name = name)
                 THEN table
                 ELSE Append(table, [id |-> Len(table) + 1, name |-> name,
                                     is_custom |-> FALSE]))

\* the state after start-up with a given catalog file
InitWith(catalog) ==
    /\ exercises_json = catalog
    /\ fsm_state = "none"
    /\ data = EmptyData
    /\ workouts = << >>
    /\ workout_exercises = << >>
    /\ exercises = seed_exercises_from_json(exercises_json, << >>)
    /\ records = << >>
    /\ store_up = TRUE
    /\ next_workout_id = 1
    /\ next_we_id = 1
    /\ reply = "none"
    /\ new_records = << >>
    /\ finished = { }
    /\ alt_prompts = 0
    /\ last_text = << >>
    /\ call = << >>
    /\ result = << >>

\* deployed with a catalog / with no catalog file (load_exercises caches [])
Init == InitWith(GymCatalog)

InitNoCatalog == InitWith(EmptyCatalog)

\* ------------------------------------------------------------------------
\* Repository layer (bot/database/crud.py) on the tables
\* ------------------------------------------------------------------------

RECURSIVE SumSeq(_)
SumSeq(s) == IF s = << >> THEN 0 ELSE Head(s) + SumSeq(Tail(s))

\* create_workout: a new row, id from the sequence, total_volume_kg NULL
create_workout(user_id) ==
    [id |-> next_workout_id, user_id |-> user_id, total_volume_kg |-> None]

WorkoutIds == { workouts[i].id : i \in 1..Len(workouts) }

\* the names of a list of flat sets, each once, in order of first occurrence
\* (the keys of by_exercise)
RECURSIVE ByExerciseNames(_, _)
ByExerciseNames(sets, seen) ==
    IF sets = << >> THEN seen
    ELSE LET name == OrDefault(Strip(Head(sets).exercise_name))
         IN  ByExerciseNames(Tail(sets),
                 IF \E k \in 1..Len(seen) : seen[k] = name THEN seen
                 ELSE Append(seen, name))

\* select(Exercise).where(Exercise.name == exercise_name): the id, or None
ExerciseIdByName(table, exercise_name) ==
    IF \E k \in 1..Len(table) : table[k].name = exercise_name
    THEN (CHOOSE k \in 1..Len(table) : table[k].name = exercise_name)
    ELSE None

\* the Set rows of one WorkoutExercise: set_number from 1, weight_kg as the
\* NUMERIC(10, 2) column keeps it
SetRows(exercise_sets) ==
    [i \in 1..Len(exercise_sets) |->
        [set_number |-> i, reps |-> exercise_sets[i].reps,
         weight_kg |-> RoundCent(exercise_sets[i].weight_kg)]]

\* volume += Decimal(str(weight_kg)) * int(reps) over the sets with both
BatchVolume(exercise_sets) ==
    SumSeq([i \in 1..Len(exercise_sets) |->
        IF exercise_sets[i].weight_kg # None /\ exercise_sets[i].reps # None
        THEN exercise_sets[i].weight_kg * exercise_sets[i].reps ELSE 0])

\* add_workout_sets_with_session on db = [exercises, workout_exercises,
\* next_we_id]: one WorkoutExercise per name, order_num counted from 0 in
\* every call
RECURSIVE AddByExercise(_, _, _, _, _)
AddByExercise(db, workout_id, sets, names, order_num) ==
    IF names = << >> THEN db
    ELSE LET exercise_name == Head(names)
             exercise_sets == SelectSeq(sets,
                 LAMBDA s : OrDefault(Strip(s.exercise_name)) = exercise_name)
             found   == ExerciseIdByName(db.exercises, exercise_name)
             ex_id   == IF found = None THEN Len(db.exercises) + 1 ELSE found
             ex_tab  == IF found = None
                        THEN Append(db.exercises,
                                 [id |-> ex_id, name |-> exercise_name, is_custom |-> TRUE])
                        ELSE db.exercises
             volume  == BatchVolume(exercise_sets)
             we      == [id |-> db.next_we_id, workout_id |-> workout_id,
                         exercise_id |-> ex_id, order_num |-> order_num,
                         volume_kg |-> IF volume # 0 THEN RoundCent(volume) ELSE None,
                         comment |-> << >>,
                         sets |-> SetRows(exercise_sets)]
         IN  AddByExercise([exercises |-> ex_tab,
                            workout_exercises |-> Append(db.workout_exercises, we),
                            next_we_id |-> db.next_we_id + 1],
                           workout_id, sets, Tail(names), order_num + 1)

add_workout_sets_with_session(db, workout_id, sets) ==
    AddByExercise(db, workout_id, sets, ByExerciseNames(sets, << >>), 0)

\* add_workout_sets delegates
add_workout_sets(db, workout_id, sets) ==
    add_workout_sets_with_session(db, workout_id, sets)

\* the tables as the handlers' sessions see them
Db == [exercises |-> exercises, workout_exercises |-> workout_exercises,
       next_we_id |-> next_we_id]

\* the WorkoutExercise rows of one workout, in insertion order
RowsOf(table, workout_id) == SelectSeq(table, LAMBDA we : we.workout_id = workout_id)

\* delete_last_workout_exercise: ORDER BY order_num DESC LIMIT 1 returns some
\* row with the greatest order_num; which one among equals is not specified
DeleteCandidates(table, workout_id) ==
    { k \in 1..Len(table) :
        /\ table[k].workout_id = workout_id
        /\ \A j \in 1..Len(table) :
               table[j].workout_id = workout_id => table[j].order_num <= table[k].order_num }

RemoveAt(s, k) == SubSeq(s, 1, k - 1) \o SubSeq(s, k + 1, Len(s))

\* get_last_workout_exercise: the row of the workout that was appended last
\* (as a sequence of length 0 or 1)
get_last_workout_exercise(table, workout_id) ==
    LET rows == RowsOf(table, workout_id)
    IN  IF rows = << >> THEN << >> ELSE << rows[Len(rows)] >>

\* a delete without the ON DELETE CASCADE of workout_exercises.workout_id
DeleteNoCascade(table, workout_id) == table

\* delete_workout: the row goes, workout_exercises and sets cascade
DeleteWorkoutRows(table, workout_id) == SelectSeq(table, LAMBDA r : r.id # workout_id)
DeleteCascade(table, workout_id) == SelectSeq(table, LAMBDA we : we.workout_id # workout_id)

\* ------------------------------------------------------------------------
\* Workout handlers (bot/handlers/workout.py, bot/handlers/start.py)
\* ------------------------------------------------------------------------

\* The callback handlers are registered without a state filter and the
\* callback data is not validated against the keyboard that was shown, and
\* the buttons of earlier messages stay on the screen: every callback is an
\* input that can arrive in every state. The text handlers are filtered by
\* the FSM state, as registered.

\* what a handler has done so far: the FSM data, the tables, the last
\* answer, whether the local variable volume is bound, whether it returned
World ==
    [data |-> data, db |-> Db, reply |-> reply, alt_prompts |-> alt_prompts,
     volume_bound |-> FALSE, stop |-> FALSE]

\* (data.get("workout") or {}).get("id")
WorkoutIdOf(d) == IF d.workout = << >> THEN None ELSE d.workout[1]

\* the answer "Добавить «name» как новое упражнение?" with add_exercise_confirm
OfferNew(w, name, sets_list) ==
    [w EXCEPT !.data = [w.data EXCEPT
                           !.pending_clarification = << >>,
                           !.pending_unknown_exercise =
                               << [name |-> name, sets_list |-> sets_list] >>],
              !.reply = "add_new_prompt", !.stop = TRUE]

\* the answer with exercise_alternatives(alts); the counter of prompts
\* starts again when no clarification was pending
ShowAlternatives(w, name, sets_list) ==
    [w EXCEPT !.data = [w.data EXCEPT !.pending_clarification =
                           << [name |-> name, sets_list |-> sets_list, attempts |-> 1] >>],
              !.reply = "alternatives",
              !.alt_prompts = IF w.data.pending_clarification = << >> THEN 1
                              ELSE w.alt_prompts + 1,
              !.stop = TRUE]

\* flat sets of a sets_list under one exercise name (weight read from "weight")
FlatSets(exercise_name, sets_list) ==
    [i \in 1..Len(sets_list) |->
        [exercise_name |-> exercise_name, reps |-> sets_list[i].reps,
         weight_kg |-> sets_list[i].weight]]

\* is_cardio: a set without weight, with reps and a duration comment
IsCardio(sets_list) ==
    \E i \in 1..Len(sets_list) :
        /\ sets_list[i].weight = None
        /\ sets_list[i].reps # None
        /\ IsDuration(sets_list[i].comment)

\* async with get_session(): a statement raises when the database does not
\* answer, the insert of WorkoutExercise rows fails on the foreign key when
\* the workout row is gone; the session rolls back and the exception leaves
\* the handler
PersistRaises(workout_id, flat_sets) ==
    flat_sets # << >> /\ (workout_id \notin WorkoutIds \/ ~store_up)

Persist(db, workout_id, flat_sets) ==
    IF PersistRaises(workout_id, flat_sets) THEN db
    ELSE add_workout_sets(db, workout_id, flat_sets)

\* lines 117-190 of _process_parsed_workout: record one accepted exercise
RecordAccepted(w, parsed, exercise_name, sets_list, workout_id) ==
    LET flat_sets == FlatSets(exercise_name, sets_list)
        cardio_format == \/ IsCardio(sets_list)
                         \/ (Len(sets_list) = 1 /\ sets_list[1].weight = None)
        bound == w.volume_bound \/ ~cardio_format
    IN  IF PersistRaises(workout_id, flat_sets)
        THEN [w EXCEPT !.reply = "exception", !.stop = TRUE]
        ELSE [w EXCEPT !.db = Persist(w.db, workout_id, flat_sets),
                       !.data = [w.data EXCEPT !.last_parsed_data = << parsed >>],
                       !.volume_bound = bound,
                       !.reply = IF bound THEN "recorded" ELSE "exception",
                       !.stop = ~bound]

\* one pass of the loop over parsed["exercises"]
ProcessExercise(w, parsed, exercise_data, workout_id, exercises_db) ==
    LET name      == OrDefault(exercise_data.name)
        sets_list == exercise_data.sets
        matched   == match_exercise(name, exercises_db)
        attempts  == IF w.data.pending_clarification = << >> THEN 0
                     ELSE w.data.pending_clarification[1].attempts
    IN  IF matched.confidence >= 90
        THEN RecordAccepted(w, parsed,
                 IF matched.name # << >> THEN matched.name ELSE name,
                 sets_list, workout_id)
        ELSE IF matched.confidence >= 60
        THEN IF attempts >= 2 THEN OfferNew(w, name, sets_list)
             ELSE IF matched.alternatives # << >> THEN ShowAlternatives(w, name, sets_list)
             ELSE [OfferNew(w, name, sets_list) EXCEPT
                      !.data.pending_clarification = w.data.pending_clarification]
        ELSE [OfferNew(w, name, sets_list) EXCEPT
                 !.data.pending_clarification = w.data.pending_clarification]

RECURSIVE ProcessExercises(_, _, _, _, _)
ProcessExercises(w, parsed, todo, workout_id, exercises_db) ==
    IF todo = << >> \/ w.stop THEN w
    ELSE ProcessExercises(
             ProcessExercise(w, parsed, Head(todo), workout_id, exercises_db),
             parsed, Tail(todo), workout_id, exercises_db)

_process_parsed_workout(w, parsed, workout_id) ==
    IF parsed.clarification_needed /\ parsed.clarification_question # << >>
    THEN [w EXCEPT !.reply = "question"]
    ELSE IF parsed.exercises = << >>
    THEN [w EXCEPT !.reply = "not_parsed"]
    ELSE ProcessExercises(w, parsed, parsed.exercises, workout_id,
                          _exercises_db_with_ids(exercises_json))

\* the handler's effects become the next state
Apply(w) ==
    /\ w.db.next_we_id <= MaxWorkoutExercises + 1
    /\ Len(w.db.exercises) <= Len(exercises_json) + MaxCustomExercises
    /\ data' = w.data
    /\ exercises' = w.db.exercises
    /\ workout_exercises' = w.db.workout_exercises
    /\ next_we_id' = w.db.next_we_id
    /\ reply' = w.reply
    /\ alt_prompts' = w.alt_prompts

\* a start that replaces the stored workouts by the new one
StartWorkoutReplacing ==
    /\ next_workout_id <= MaxWorkouts
    /\ workouts' = << create_workout(UserId) >>
    /\ next_workout_id' = next_workout_id + 1
    /\ data' = [data EXCEPT !.workout = << next_workout_id >>]
    /\ fsm_state' = "active"
    /\ reply' = "workout_started"
    /\ last_text' = << >>
    /\ UNCHANGED << exercises_json, workout_exercises, exercises, records,
                    next_we_id, new_records, finished, alt_prompts >>

\* callback "program:<value>" (on_program_selected) and callback
\* "workout_start_new" (bot/handlers/start.py): a new Workout row, the FSM
\* data points at it, the state becomes active; the other data stay
StartWorkout ==
    /\ next_workout_id <= MaxWorkouts
    /\ IF store_up
       THEN /\ workouts' = Append(workouts, create_workout(UserId))
            /\ next_workout_id' = next_workout_id + 1
            /\ data' = [data EXCEPT !.workout = << next_workout_id >>]
            /\ fsm_state' = "active"
            /\ reply' = "workout_started"
       ELSE /\ reply' = "exception"
            /\ UNCHANGED << workouts, next_workout_id, data, fsm_state >>
    /\ last_text' = << >>
    /\ UNCHANGED << exercises_json, workout_exercises, exercises, records,
                    next_we_id, new_records, finished, alt_prompts >>

\* callback "program:freestyle" / "program:new", in any state
on_program_selected == fsm_state \in FsmStates /\ StartWorkout /\ UNCHANGED << function_vars, store_up >>

\* callback "workout_start_new", in any state
workout_start_new == fsm_state \in FsmStates /\ StartWorkout /\ UNCHANGED << function_vars, store_up >>

\* text "Начать тренировку", in any state (bot/handlers/start.py): with a
\* workout in the FSM data the user is asked to continue or to start a new
\* one, otherwise the program selection is shown; nothing is written
start_workout ==
    /\ reply' = IF WorkoutIdOf(data) # None THEN "continue_or_new"
                ELSE IF store_up THEN "select_program" ELSE "exception"
    /\ last_text' = << >>
    /\ UNCHANGED << exercises_json, fsm_state, data, workouts, workout_exercises,
                    exercises, records, next_workout_id, next_we_id,
                    new_records, finished, alt_prompts >>
    /\ UNCHANGED << function_vars, store_up >>

\* callback "workout_continue", in any state: two messages, nothing else
workout_continue ==
    /\ reply' = "continuing"
    /\ last_text' = << >>
    /\ UNCHANGED << exercises_json, fsm_state, data, workouts, workout_exercises,
                    exercises, records, next_workout_id, next_we_id,
                    new_records, finished, alt_prompts >>
    /\ UNCHANGED << function_vars, store_up >>

\* flat sets of a sets_list where the weight is read as
\* s.get("weight") or s.get("weight_kg"): a weight of 0 is lost
FlatSetsOr(exercise_name, sets_list) ==
    [i \in 1..Len(sets_list) |->
        [exercise_name |-> exercise_name, reps |-> sets_list[i].reps,
         weight_kg |-> IF sets_list[i].weight = 0 THEN None ELSE sets_list[i].weight]]

\* lines 698-748: the second typed name is resolved, the pending sets are
\* recorded under it or offered as a new exercise
SecondAttempt(w, text, workout_id) ==
    LET new_name  == OrDefault(Strip(text))
        sets_list == w.data.pending_clarification[1].sets_list
        cleared   == [w EXCEPT !.data.pending_clarification = << >>]
        matched   == match_exercise(new_name, _exercises_db_with_ids(exercises_json))
        flat_sets == FlatSetsOr(IF matched.name # << >> THEN matched.name ELSE new_name,
                                sets_list)
    IN  IF sets_list = << >> THEN [cleared EXCEPT !.reply = "stale"]
        ELSE IF matched.confidence >= 90
        THEN IF PersistRaises(workout_id, flat_sets)
             THEN [cleared EXCEPT !.reply = "exception"]
             ELSE [cleared EXCEPT !.db = Persist(w.db, workout_id, flat_sets),
                                  !.reply = "recorded"]
        ELSE OfferNew(cleared, new_name, sets_list)

\* text message in state active that is none of the menu buttons
HandleText(w, text, llm) ==
    LET workout_id   == WorkoutIdOf(w.data)
        pending_clar == w.data.pending_clarification
        text_lower   == LowerStr(Strip(text))
        parsed       == parse_workout_message(text,
                            _exercises_db_with_ids(exercises_json), llm)
    IN  IF workout_id = None THEN [w EXCEPT !.reply = "no_workout"]
        ELSE IF pending_clar # << >> /\ pending_clar[1].attempts = 1
                /\ text_lower \in CLARIFICATION_REFUSAL
        THEN [w EXCEPT !.data.pending_clarification =
                           << [pending_clar[1] EXCEPT !.attempts = 2] >>,
                       !.reply = "retype_name"]
        ELSE IF pending_clar # << >> /\ pending_clar[1].attempts = 2
        THEN SecondAttempt(w, text, workout_id)
        ELSE _process_parsed_workout(w, parsed, workout_id)

\* the handler run on a text for which the language model gives one of answers
TextDuringWorkout(answers) ==
    /\ \E text \in Texts, llm \in answers :
        /\ Apply(HandleText(World, text, llm))
        /\ last_text' = << llm >>
    /\ UNCHANGED << exercises_json, fsm_state, workouts, records,
                    next_workout_id, new_records, finished >>
    /\ UNCHANGED << function_vars, store_up >>

handle_text_during_workout == fsm_state = "active" /\ TextDuringWorkout(LlmAnswers)

\* callback "add_exercise_yes": the pending unknown exercise becomes a custom
\* exercise and its sets are recorded
AddExerciseYes(w) ==
    LET workout_id == WorkoutIdOf(w.data)
        pending    == w.data.pending_unknown_exercise
        name       == IF pending = << >> THEN DefaultName
                      ELSE OrDefault(Strip(pending[1].name))
        sets_list  == IF pending = << >> THEN << >> ELSE pending[1].sets_list
        cleared    == [w EXCEPT !.data.pending_unknown_exercise = << >>]
        flat_sets  == FlatSetsOr(name, sets_list)
    IN  IF workout_id = None \/ sets_list = << >>
        THEN [cleared EXCEPT !.reply = "stale"]
        ELSE IF PersistRaises(workout_id, flat_sets)
        THEN [cleared EXCEPT !.reply = "exception"]
        ELSE [cleared EXCEPT !.db = Persist(w.db, workout_id, flat_sets),
                             !.reply = "added_new"]

on_add_exercise_yes ==
    /\ Apply(AddExerciseYes(World))
    /\ last_text' = << >>
    /\ UNCHANGED << exercises_json, fsm_state, workouts, records,
                    next_workout_id, new_records, finished >>
    /\ UNCHANGED << function_vars, store_up >>

\* callback "add_exercise_no"
on_add_exercise_no ==
    /\ Apply([World EXCEPT !.data.pending_unknown_exercise = << >>,
                           !.reply = "clarify_name"])
    /\ last_text' = << >>
    /\ UNCHANGED << exercises_json, fsm_state, workouts, records,
                    next_workout_id, new_records, finished >>
    /\ UNCHANGED << function_vars, store_up >>

\* callback "delete_last_exercise"
on_delete_last_exercise ==
    /\ LET workout_id == WorkoutIdOf(data)
       IN  IF workout_id = None
           THEN /\ reply' = "no_workout"
                /\ UNCHANGED workout_exercises
           ELSE IF ~store_up
           THEN /\ reply' = "exception"
                /\ UNCHANGED workout_exercises
           ELSE IF DeleteCandidates(workout_exercises, workout_id) = { }
           THEN /\ reply' = "nothing_to_delete"
                /\ UNCHANGED workout_exercises
           ELSE \E k \in DeleteCandidates(workout_exercises, workout_id) :
                /\ workout_exercises' = RemoveAt(workout_exercises, k)
                /\ reply' = "deleted"
    /\ last_text' = << >>
    /\ UNCHANGED << exercises_json, fsm_state, data, workouts, exercises, records,
                    next_workout_id, next_we_id, new_records, finished, alt_prompts >>
    /\ UNCHANGED << function_vars, store_up >>

\* the sets of a stored WorkoutExercise as on_edit_last_exercise keeps them:
\* float(s.weight_kg) if s.weight_kg else None
SetsData(we) ==
    [i \in 1..Len(we.sets) |->
        [reps |-> we.sets[i].reps,
         weight_kg |-> IF we.sets[i].weight_kg = 0 THEN None ELSE we.sets[i].weight_kg]]

\* callback "edit_last_exercise": the sets of the last exercise are kept in
\* the FSM data, an exercise is deleted, the name is asked for
on_edit_last_exercise ==
    /\ LET workout_id == WorkoutIdOf(data)
           last_we    == get_last_workout_exercise(workout_exercises, workout_id)
       IN  IF workout_id = None
           THEN /\ reply' = "no_workout"
                /\ UNCHANGED << workout_exercises, data, fsm_state >>
           ELSE IF ~store_up
           THEN /\ reply' = "exception"
                /\ UNCHANGED << workout_exercises, data, fsm_state >>
           ELSE IF last_we = << >>
           THEN /\ reply' = "nothing_to_edit"
                /\ UNCHANGED << workout_exercises, data, fsm_state >>
           ELSE \E k \in DeleteCandidates(workout_exercises, workout_id) :
                /\ workout_exercises' = RemoveAt(workout_exercises, k)
                /\ data' = [data EXCEPT !.pending_sets = << SetsData(last_we[1]) >>,
                                        !.pending_workout_id = workout_id]
                /\ fsm_state' = "waiting_exercise_name"
                /\ reply' = "ask_name"
    /\ last_text' = << >>
    /\ UNCHANGED << exercises_json, workouts, exercises, records,
                    next_workout_id, next_we_id, new_records, finished, alt_prompts >>
    /\ UNCHANGED << function_vars, store_up >>

\* text message in state waiting_exercise_name: the kept sets are recorded
\* again under the typed name
ManualExerciseName(w, text) ==
    LET workout_id == w.data.pending_workout_id
        sets_data  == IF w.data.pending_sets = << >> THEN << >> ELSE w.data.pending_sets[1]
        matched    == match_exercise(Strip(text), _exercises_db_with_ids(exercises_json))
        exercise_name == IF matched.name # << >> THEN matched.name ELSE Strip(text)
        flat_sets  == [i \in 1..Len(sets_data) |->
                          [exercise_name |-> exercise_name, reps |-> sets_data[i].reps,
                           weight_kg |-> sets_data[i].weight_kg]]
    IN  IF PersistRaises(workout_id, flat_sets)
        THEN [w EXCEPT !.reply = "exception"]
        ELSE [w EXCEPT !.db = Persist(w.db, workout_id, flat_sets),
                       !.data.pending_sets = << >>,
                       !.data.pending_workout_id = None,
                       !.reply = "corrected"]

handle_manual_exercise_name ==
    /\ fsm_state = "waiting_exercise_name"
    /\ \E text \in Texts :
        IF Strip(text) = << >>
        THEN /\ reply' = "empty_name"
             /\ UNCHANGED << data, exercises, workout_exercises, next_we_id,
                             alt_prompts, fsm_state >>
        ELSE IF data.pending_workout_id = None
        THEN /\ reply' = "no_workout"
             /\ data' = EmptyData
             /\ fsm_state' = "none"
             /\ UNCHANGED << exercises, workout_exercises, next_we_id, alt_prompts >>
        ELSE LET w == ManualExerciseName(World, text)
             IN  /\ Apply(w)
                 /\ fsm_state' = IF w.reply = "exception" THEN fsm_state ELSE "active"
    /\ last_text' = << >>
    /\ UNCHANGED << exercises_json, workouts, records,
                    next_workout_id, new_records, finished >>
    /\ UNCHANGED << function_vars, store_up >>

\* the values of the callback data "exercise:<value>" the keyboards carry:
\* "new", the id of a catalog entry, and "None" (exercise_alternatives
\* writes alt.get("exercise_id") or alt.get("id"), and the id 0 is falsy)
ExerciseCallbackValues == { "new", "None", "0", "1" }

\* int(value), None for a ValueError

IntOf(value) ==
    CASE value = "0" -> 0
      [] value = "1" -> 1
      [] OTHER -> None

\* callback "exercise:new": the exercise being clarified is recorded under
\* its reported name
ExerciseNew(w) ==
    LET pending_clar == w.data.pending_clarification
        name       == IF pending_clar = << >> THEN DefaultName
                      ELSE OrDefault(Strip(pending_clar[1].name))
        sets_list  == IF pending_clar = << >> THEN << >> ELSE pending_clar[1].sets_list
        workout_id == WorkoutIdOf(w.data)
        cleared    == [w EXCEPT !.data.pending_clarification = << >>]
        flat_sets  == FlatSetsOr(name, sets_list)
    IN  IF workout_id = None \/ sets_list = << >>
        THEN [cleared EXCEPT !.reply = "stale"]
        ELSE IF PersistRaises(workout_id, flat_sets)
        THEN [cleared EXCEPT !.reply = "exception"]
        ELSE [cleared EXCEPT !.db = Persist(w.db, workout_id, flat_sets),
                             !.reply = "added_new"]

\* callback "exercise:<index>": the sets of the first exercise of
\* last_parsed_data are recorded under the catalog entry with that index
ExerciseIndex(w, value) ==
    LET cleared      == [w EXCEPT !.data.pending_clarification = << >>]
        workout_id   == WorkoutIdOf(w.data)
        exercises_db == _exercises_db_with_ids(exercises_json)
        idx          == IntOf(value)
        parsed_data  == w.data.last_parsed_data
        sets_list    == parsed_data[1].exercises[1].sets
        flat_sets    == FlatSets(exercises_db[idx + 1].name, sets_list)
    IN  IF workout_id = None THEN [cleared EXCEPT !.reply = "no_workout"]
        ELSE IF idx = None THEN [cleared EXCEPT !.reply = "ignored"]
        ELSE IF ~(0 <= idx /\ idx < Len(exercises_db))
        THEN [cleared EXCEPT !.reply = "bad_choice"]
        ELSE IF parsed_data = << >> THEN [cleared EXCEPT !.reply = "no_data"]
        ELSE IF parsed_data[1].exercises = << >> THEN [cleared EXCEPT !.reply = "no_data"]
        ELSE IF PersistRaises(workout_id, flat_sets)
        THEN [cleared EXCEPT !.reply = "exception"]
        ELSE [cleared EXCEPT !.db = Persist(w.db, workout_id, flat_sets),
                             !.data.last_parsed_data = << >>,
                             !.reply = "recorded_choice"]

on_exercise_selected ==
    /\ \E value \in ExerciseCallbackValues :
        /\ Apply(IF value = "new" THEN ExerciseNew(World)
                 ELSE ExerciseIndex(World, value))
        /\ last_text' = << >>
    /\ UNCHANGED << exercises_json, fsm_state, workouts, records,
                    next_workout_id, new_records, finished >>
    /\ UNCHANGED << function_vars, store_up >>

\* ------------------------------------------------------------------------
\* Record tracker (bot/database/crud.py check_and_save_records)
\* ------------------------------------------------------------------------

RecordTypes == << "max_weight", "max_volume", "max_1rm" >>

MaxOf(S) == IF S = { } THEN None ELSE CHOOSE m \in S : \A x \in S : x <= m

\* the value a WorkoutExercise computes for one record type, None when it
\* has none; weights are read from the stored sets
ComputedValue(we, record_type) ==
    CASE record_type = "max_weight" ->
            MaxOf({ we.sets[i].weight_kg : i \in { j \in 1..Len(we.sets) :
                        we.sets[j].weight_kg # None } })
      [] record_type = "max_volume" ->
            IF we.volume_kg = None THEN 0 ELSE we.volume_kg
      [] record_type = "max_1rm" ->
            MaxOf({ calculate_1rm(we.sets[i].reps, we.sets[i].weight_kg) :
                        i \in { j \in 1..Len(we.sets) :
                            we.sets[j].reps # None /\ we.sets[j].weight_kg # None } })

\* existing.get(record_type): existing is a dict built from an unordered
\* select, so with several rows of one type it holds any one of them
PreviousValues(stored, user_id, ex_id, record_type) ==
    LET rows == { k \in 1..Len(stored) :
                    /\ stored[k].user_id = user_id
                    /\ stored[k].exercise_id = ex_id
                    /\ stored[k].record_type = record_type }
    IN  IF rows = { } THEN { None } ELSE { stored[k].value : k \in rows }

\* the new_records entry of one record type, as a sequence of length 0 or 1
RecordEntry(we, ex_name, record_type, prev_val) ==
    LET value == ComputedValue(we, record_type)
    IN  IF value = None THEN << >>
        ELSE IF prev_val = None \/ value > prev_val
        THEN << [exercise_id |-> we.exercise_id, exercise_name |-> ex_name,
                 record_type |-> record_type, value |-> value,
                 previous_value |-> prev_val] >>
        ELSE << >>

\* what one WorkoutExercise can add to new_records
ExerciseOutcomes(we, stored, user_id, table) ==
    { RecordEntry(we, table[we.exercise_id].name, RecordTypes[1], p1)
      \o RecordEntry(we, table[we.exercise_id].name, RecordTypes[2], p2)
      \o RecordEntry(we, table[we.exercise_id].name, RecordTypes[3], p3) :
        p1 \in PreviousValues(stored, user_id, we.exercise_id, RecordTypes[1]),
        p2 \in PreviousValues(stored, user_id, we.exercise_id, RecordTypes[2]),
        p3 \in PreviousValues(stored, user_id, we.exercise_id, RecordTypes[3]) }

\* the lists check_and_save_records can return for the WorkoutExercises wes;
\* the session does not autoflush, so every select sees the stored rows only
RECURSIVE RecordOutcomes(_, _, _, _)
RecordOutcomes(wes, stored, user_id, table) ==
    IF wes = << >> THEN { << >> }
    ELSE { a \o b : a \in ExerciseOutcomes(Head(wes), stored, user_id, table),
                    b \in RecordOutcomes(Tail(wes), stored, user_id, table) }

\* a tracker that reads the WorkoutExercises of every workout instead of
\* those of the finished one
check_and_save_records_all(workout_id) ==
    IF workout_id \notin WorkoutIds THEN { << >> }
    ELSE RecordOutcomes(workout_exercises, records, UserId, exercises)

check_and_save_records(workout_id) ==
    IF workout_id \notin WorkoutIds THEN { << >> }
    ELSE RecordOutcomes(RowsOf(workout_exercises, workout_id), records,
                        UserId, exercises)

\* the Record rows of a returned list: value as NUMERIC(12, 2) keeps it
RecordRows(entries, user_id, workout_id) ==
    [i \in 1..Len(entries) |->
        [user_id |-> user_id, exercise_id |-> entries[i].exercise_id,
         record_type |-> entries[i].record_type,
         value |-> RoundCent(entries[i].value), workout_id |-> workout_id]]

\* _do_finish_workout and the state.clear() that follows it
\* a finish that leaves the FSM state and data of the session as they were
DoFinishKeepsSession(workout_id) ==
    \E entries \in check_and_save_records(workout_id) :
        /\ store_up
        /\ records' = records \o RecordRows(entries, UserId, workout_id)
        /\ new_records' = entries
        /\ reply' = "summary"
        /\ finished' = finished \cup { workout_id }
        /\ UNCHANGED << fsm_state, data >>
        /\ last_text' = << >>

DoFinish(workout_id) ==
    IF ~store_up
    THEN /\ reply' = "exception"
         /\ last_text' = << >>
         /\ UNCHANGED << records, new_records, finished, fsm_state, data >>
    ELSE \E entries \in check_and_save_records(workout_id) :
        /\ records' = records \o RecordRows(entries, UserId, workout_id)
        /\ new_records' = entries
        /\ reply' = IF RowsOf(workout_exercises, workout_id) = << >>
                    THEN "summary_no_data" ELSE "summary"
        /\ finished' = finished \cup { workout_id }
        /\ fsm_state' = "none"
        /\ data' = EmptyData
        /\ last_text' = << >>

\* text "Завершить тренировку" in state active
finish_workout ==
    /\ fsm_state = "active"
    /\ IF WorkoutIdOf(data) = None
       THEN /\ reply' = "no_workout"
            /\ fsm_state' = "none"
            /\ data' = EmptyData
            /\ last_text' = << >>
            /\ UNCHANGED << records, new_records, finished >>
       ELSE DoFinish(WorkoutIdOf(data))
    /\ UNCHANGED << exercises_json, workouts, workout_exercises, exercises,
                    next_workout_id, next_we_id, alt_prompts >>
    /\ UNCHANGED << function_vars, store_up >>

\* callback "finish_workout", in any state
finish_workout_handler ==
    /\ IF WorkoutIdOf(data) = None
       THEN /\ reply' = "no_workout"
            /\ last_text' = << >>
            /\ UNCHANGED << records, new_records, finished, fsm_state, data >>
       ELSE DoFinish(WorkoutIdOf(data))
    /\ UNCHANGED << exercises_json, workouts, workout_exercises, exercises,
                    next_workout_id, next_we_id, alt_prompts >>
    /\ UNCHANGED << function_vars, store_up >>

\* delete_workout and state.clear(); records keep their row with
\* workout_id set to NULL
DoCancel ==
    LET workout_id == WorkoutIdOf(data)
    IN  /\ IF workout_id # None /\ ~store_up
           THEN /\ reply' = "exception"
                /\ UNCHANGED << workouts, workout_exercises, records, fsm_state, data >>
           ELSE /\ workouts' = DeleteWorkoutRows(workouts, workout_id)
                /\ workout_exercises' = DeleteCascade(workout_exercises, workout_id)
                /\ records' = [k \in 1..Len(records) |->
                                  IF records[k].workout_id = workout_id /\ workout_id # None
                                  THEN [records[k] EXCEPT !.workout_id = None]
                                  ELSE records[k]]
                /\ reply' = "cancelled"
                /\ fsm_state' = "none"
                /\ data' = EmptyData
        /\ last_text' = << >>
        /\ UNCHANGED << exercises_json, exercises, next_workout_id, next_we_id,
                        new_records, finished, alt_prompts >>

\* text "Отменить тренировку" in state active
cancel_workout == fsm_state = "active" /\ DoCancel /\ UNCHANGED << function_vars, store_up >>

\* callback "cancel_workout", in any state
cancel_workout_handler == fsm_state \in FsmStates /\ DoCancel /\ UNCHANGED << function_vars, store_up >>

Next ==
    \/ start_workout
    \/ workout_continue
    \/ on_program_selected
    \/ workout_start_new
    \/ handle_text_during_workout
    \/ on_add_exercise_yes
    \/ on_add_exercise_no
    \/ on_delete_last_exercise
    \/ on_edit_last_exercise
    \/ handle_manual_exercise_name
    \/ on_exercise_selected
    \/ finish_workout
    \/ finish_workout_handler
    \/ cancel_workout
    \/ cancel_workout_handler

Spec == Init /\ [][Next]_vars

SpecNoCatalog == InitNoCatalog /\ [][Next]_vars

\* the database stops answering / answers again (connection loss, timeout)
store_outage ==
    /\ store_up
    /\ store_up' = FALSE
    /\ UNCHANGED << exercises_json, fsm_state, data, workouts, workout_exercises,
                    exercises, records, next_workout_id, next_we_id, reply,
                    new_records, finished, alt_prompts, last_text >>
    /\ UNCHANGED function_vars

store_recovery ==
    /\ ~store_up
    /\ store_up' = TRUE
    /\ UNCHANGED << exercises_json, fsm_state, data, workouts, workout_exercises,
                    exercises, records, next_workout_id, next_we_id, reply,
                    new_records, finished, alt_prompts, last_text >>
    /\ UNCHANGED function_vars

NextOutage ==
    \/ start_workout
    \/ workout_continue
    \/ on_program_selected
    \/ workout_start_new
    \/ handle_text_during_workout
    \/ on_add_exercise_yes
    \/ on_add_exercise_no
    \/ on_delete_last_exercise
    \/ on_edit_last_exercise
    \/ handle_manual_exercise_name
    \/ on_exercise_selected
    \/ finish_workout
    \/ finish_workout_handler
    \/ cancel_workout
    \/ cancel_workout_handler
    \/ store_outage
    \/ store_recovery

\* deployed with no catalog file, the database failing at any time
SpecOutage == InitNoCatalog /\ [][NextOutage]_vars


\* ------------------------------------------------------------------------
\* Dictation of which the language model understood the exercise and not
\* all of its sets: the user dictates and uses the last-exercise buttons
\* ------------------------------------------------------------------------

\* the answers to such a dictation: a well-formed one, one with a set of
\* which neither reps nor weight was understood, one with no set at all
BlankAnswers ==
    { JsonAnswer(<< [name |-> <<"a","b">>, sets |-> SetsBench] >>, FALSE, << >>),
      JsonAnswer(<< [name |-> <<"a","b">>, sets |-> SetsBlank] >>, FALSE, << >>),
      JsonAnswer(<< [name |-> <<"c">>, sets |-> << >>] >>, FALSE, << >>) }

handle_text_blank_sets == fsm_state = "active" /\ TextDuringWorkout(BlankAnswers)

NextBlank ==
    \/ on_program_selected
    \/ handle_text_blank_sets
    \/ on_delete_last_exercise
    \/ on_edit_last_exercise
    \/ finish_workout
    \/ cancel_workout

\* deployed with a catalog, the dictation partly understood
SpecBlank == Init /\ [][NextBlank]_vars

\* ------------------------------------------------------------------------
\* The comment sub-dialog (bot/handlers/workout.py on_add_comment,
\* handle_comment_input)
\* ------------------------------------------------------------------------

\* add_exercise_comment: UPDATE workout_exercises SET comment WHERE id =
\* workout_exercise_id; no row of that id, no change
add_exercise_comment(table, workout_exercise_id, comment) ==
    [k \in 1..Len(table) |->
        IF table[k].id = workout_exercise_id
        THEN [table[k] EXCEPT !.comment = comment] ELSE table[k]]

\* callback "add_comment", in any state: the id of the last WorkoutExercise
\* is remembered and the comment is asked for
on_add_comment ==
    /\ LET workout_id == WorkoutIdOf(data)
           last_we    == get_last_workout_exercise(workout_exercises, workout_id)
       IN  IF workout_id = None
           THEN /\ reply' = "no_workout"
                /\ UNCHANGED << data, fsm_state >>
           ELSE IF ~store_up
           THEN /\ reply' = "exception"
                /\ UNCHANGED << data, fsm_state >>
           ELSE IF last_we = << >>
           THEN /\ reply' = "nothing_to_comment"
                /\ UNCHANGED << data, fsm_state >>
           ELSE /\ data' = [data EXCEPT !.pending_comment_we_id = last_we[1].id]
                /\ fsm_state' = "waiting_comment"
                /\ reply' = "ask_comment"
    /\ last_text' = << >>
    /\ UNCHANGED << exercises_json, workouts, workout_exercises, exercises, records,
                    next_workout_id, next_we_id, new_records, finished, alt_prompts >>
    /\ UNCHANGED << function_vars, store_up >>

\* what the user types as a comment: blank, or a word
CommentTexts == { <<" ">>, <<"o","k">> }

\* text message in state waiting_comment
handle_comment_input ==
    /\ fsm_state = "waiting_comment"
    /\ \E text \in CommentTexts :
          LET we_id == data.pending_comment_we_id
          IN  IF Strip(text) = << >>
              THEN /\ reply' = "comment_empty"
                   /\ UNCHANGED << data, fsm_state, workout_exercises >>
              ELSE IF we_id = None
              THEN /\ reply' = "comment_error"
                   /\ fsm_state' = "active"
                   /\ UNCHANGED << data, workout_exercises >>
              ELSE IF ~store_up
              THEN /\ reply' = "exception"
                   /\ UNCHANGED << data, fsm_state, workout_exercises >>
              ELSE /\ workout_exercises' =
                          add_exercise_comment(workout_exercises, we_id, Strip(text))
                   /\ reply' = "comment_added"
                   /\ fsm_state' = "active"
                   /\ data' = [data EXCEPT !.pending_comment_we_id = None]
    /\ last_text' = << >>
    /\ UNCHANGED << exercises_json, workouts, exercises, records, next_workout_id,
                    next_we_id, new_records, finished, alt_prompts >>
    /\ UNCHANGED << function_vars, store_up >>

NextComment ==
    \/ on_program_selected
    \/ handle_text_blank_sets
    \/ on_delete_last_exercise
    \/ on_exercise_selected
    \/ on_add_comment
    \/ handle_comment_input
    \/ finish_workout_handler
    \/ cancel_workout_handler

\* deployed with a catalog, the comment sub-dialog in use
SpecComment == Init /\ [][NextComment]_vars
\* ------------------------------------------------------------------------
\* Overlapping handler tasks: dp.start_polling runs every update in a task
\* of its own, each database call in a session (transaction) of its own;
\* the tasks interleave at every await. Variable call holds the database
\* calls in flight, each with the rows its session has flushed and not yet
\* committed; what a session reads is what the others have committed.
\* ------------------------------------------------------------------------

\* at most this many handler tasks are in flight at once
MaxTasks == 2

\* the accepted sets a task stores: one exercise of the catalog
OverlapSets ==
    { FlatSets(<<"A", "b">>, [k \in 1..Len(SetsLight) |-> ParseSet(SetsLight[k])]),
      FlatSets(<<"A", "b">>, [k \in 1..Len(SetsBench) |-> ParseSet(SetsBench[k])]) }

\* a call may begin: a workout is open, a task is free and the table has room
MayBegin ==
    /\ WorkoutIdOf(data) \in WorkoutIds
    /\ Len(call) < MaxTasks
    /\ Len(workout_exercises) + Len(call) < MaxWorkoutExercises

\* the overlap mark of the calls already in flight when another one begins
Overlapping(calls) == [k \in 1..Len(calls) |-> [calls[k] EXCEPT !.overlapped = TRUE]]

\* add_workout_sets_with_session up to its first await: by_exercise is
\* built and order_num = 0 is set without reading the table
begin_add_workout_sets ==
    /\ MayBegin
    /\ \E sets \in OverlapSets :
          call' = Append(Overlapping(call),
                         [fn |-> "add_workout_sets", pc |-> "begun",
                          workout_id |-> WorkoutIdOf(data), sets |-> sets,
                          order_num |-> 0, rows |-> << >>,
                          overlapped |-> call # << >>])
    /\ UNCHANGED << session_vars, result >>

\* add_workout_exercise up to session.add(we): coalesce(max(order_num), -1)
\* over the committed rows of the workout, then (r.scalar() or -1) + 1, so
\* that a maximum of 0 counts as no row
begin_add_workout_exercise ==
    /\ MayBegin
    /\ \E sets \in OverlapSets :
          LET rows == RowsOf(workout_exercises, WorkoutIdOf(data))
              nums == { rows[k].order_num : k \in 1..Len(rows) }
              top  == IF nums = {} THEN -1
                      ELSE CHOOSE n \in nums : \A m \in nums : m <= n
              next_order == (IF top = 0 THEN -1 ELSE top) + 1
          IN  call' = Append(Overlapping(call),
                             [fn |-> "add_workout_exercise", pc |-> "begun",
                              workout_id |-> WorkoutIdOf(data), sets |-> sets,
                              order_num |-> next_order, rows |-> << >>,
                              overlapped |-> call # << >>])
    /\ UNCHANGED << session_vars, result >>

\* session.add(we); await session.flush(): the row gets its id from the
\* sequence and stays invisible to the other sessions
flush_workout_exercise ==
    /\ \E k \in 1..Len(call) :
          /\ call[k].pc = "begun"
          /\ LET c  == call[k]
                 db == AddByExercise([exercises |-> exercises,
                                      workout_exercises |-> << >>,
                                      next_we_id |-> next_we_id],
                                     c.workout_id, c.sets,
                                     ByExerciseNames(c.sets, << >>), c.order_num)
             IN  /\ call' = [call EXCEPT ![k].pc = "flushed",
                                         ![k].rows = db.workout_exercises]
                 /\ next_we_id' = db.next_we_id
    /\ UNCHANGED << exercises_json, fsm_state, data, workouts, workout_exercises,
                    exercises, records, store_up, next_workout_id, reply,
                    new_records, finished, alt_prompts, last_text, result >>

\* get_session leaves the with block: await session.commit() makes the rows
\* visible; no constraint of the table rejects an order_num already taken
commit_session ==
    /\ \E k \in 1..Len(call) :
          /\ call[k].pc = "flushed"
          /\ workout_exercises' = workout_exercises \o call[k].rows
          /\ call' = [j \in 1..(Len(call) - 1) |-> IF j < k THEN call[j] ELSE call[j + 1]]
    /\ reply' = "recorded"
    /\ last_text' = << >>
    /\ UNCHANGED << exercises_json, fsm_state, data, workouts, exercises, records,
                    store_up, next_workout_id, next_we_id, new_records, finished,
                    alt_prompts, result >>

NextOverlap ==
    \/ on_program_selected
    \/ begin_add_workout_sets
    \/ begin_add_workout_exercise
    \/ flush_workout_exercise
    \/ commit_session

\* deployed with a catalog, handler tasks overlapping
SpecOverlap == Init /\ [][NextOverlap]_vars

\* ------------------------------------------------------------------------
\* Repository functions that no handler calls, called on the store that the
\* handlers have filled
\* ------------------------------------------------------------------------

\* sum((s.weight_kg or 0) * (s.reps or 0)) over the sets that stay
RemainingVolume(sets) ==
    SumSeq([i \in 1..Len(sets) |->
        (IF sets[i].weight_kg = None THEN 0 ELSE sets[i].weight_kg)
        * (IF sets[i].reps = None THEN 0 ELSE sets[i].reps)])

\* a removal that leaves volume_kg as it was
remove_last_set_stale(table, workout_id) ==
    IF workout_id \notin WorkoutIds \/ RowsOf(table, workout_id) = << >>
    THEN { [table |-> table, result |-> FALSE] }
    ELSE { IF table[k].sets = << >>
           THEN [table |-> table, result |-> FALSE]
           ELSE [table |-> [table EXCEPT ![k].sets =
                               SubSeq(table[k].sets, 1, Len(table[k].sets) - 1)],
                 result |-> TRUE]
           : k \in DeleteCandidates(table, workout_id) }

\* remove_last_set: workout.workout_exercises[-1] is a row with the greatest
\* order_num (which one among equals is not specified), its last set by
\* set_number is deleted and volume_kg recomputed; the outcomes
\* [table, result]
remove_last_set(table, workout_id) ==
    IF workout_id \notin WorkoutIds \/ RowsOf(table, workout_id) = << >>
    THEN { [table |-> table, result |-> FALSE] }
    ELSE { IF table[k].sets = << >>
           THEN [table |-> table, result |-> FALSE]
           ELSE LET rest    == SubSeq(table[k].sets, 1, Len(table[k].sets) - 1)
                    new_vol == RemainingVolume(rest)
                IN  [table |-> [table EXCEPT
                                   ![k].sets = rest,
                                   ![k].volume_kg = IF new_vol # 0 THEN RoundCent(new_vol)
                                                    ELSE None],
                     result |-> TRUE]
           : k \in DeleteCandidates(table, workout_id) }

\* a direct call of remove_last_set: no handler runs, no reply is sent
call_remove_last_set ==
    /\ \E workout_id \in 1..MaxWorkouts :
       \E outcome \in remove_last_set(workout_exercises, workout_id) :
          /\ workout_exercises' = outcome.table
          /\ call' = << [fn |-> "remove_last_set", workout_id |-> workout_id] >>
          /\ result' = << outcome.result >>
    /\ reply' = "none"
    /\ last_text' = << >>
    /\ UNCHANGED << exercises_json, fsm_state, data, workouts, exercises, records,
                    store_up, next_workout_id, next_we_id, new_records, finished,
                    alt_prompts >>

NextRepository ==
    \/ on_program_selected
    \/ handle_text_blank_sets
    \/ call_remove_last_set

\* deployed with a catalog, the repository functions called between messages
SpecRepository == Init /\ [][NextRepository]_vars

\* ------------------------------------------------------------------------
\* A confirmation button delivered more than once: each delivery is a task
\* of its own; a task runs without interruption from its start to its first
\* database or network await (MemoryStorage reads and writes do not yield)
\* ------------------------------------------------------------------------

\* a delivery that leaves the pending batch in the FSM data
KeepPendingUnknown(d) == d

\* await state.update_data(pending_unknown_exercise=None)
TakePendingUnknown(d) == [d EXCEPT !.pending_unknown_exercise = << >>]

\* on_add_exercise_yes up to `async with get_session()`: the pending batch
\* is read and cleared; stale data are answered at once
begin_add_exercise_yes ==
    /\ Len(call) < MaxTasks
    /\ LET workout_id == WorkoutIdOf(data)
           pending    == data.pending_unknown_exercise
           name       == IF pending = << >> THEN DefaultName
                         ELSE OrDefault(Strip(pending[1].name))
           sets_list  == IF pending = << >> THEN << >> ELSE pending[1].sets_list
       IN  /\ data' = TakePendingUnknown(data)
           /\ IF workout_id = None \/ sets_list = << >>
              THEN /\ reply' = "stale"
                   /\ UNCHANGED call
              ELSE /\ call' = Append(call, [fn |-> "on_add_exercise_yes",
                                            workout_id |-> workout_id,
                                            sets |-> FlatSetsOr(name, sets_list)])
                   /\ reply' = "none"
    /\ last_text' = << >>
    /\ UNCHANGED << exercises_json, fsm_state, workouts, workout_exercises, exercises,
                    records, store_up, next_workout_id, next_we_id, new_records,
                    finished, alt_prompts, result >>

\* on_exercise_selected with "exercise:new" up to `async with get_session()`
begin_exercise_new ==
    /\ Len(call) < MaxTasks
    /\ LET workout_id   == WorkoutIdOf(data)
           pending_clar == data.pending_clarification
           name       == IF pending_clar = << >> THEN DefaultName
                         ELSE OrDefault(Strip(pending_clar[1].name))
           sets_list  == IF pending_clar = << >> THEN << >> ELSE pending_clar[1].sets_list
       IN  /\ data' = [data EXCEPT !.pending_clarification = << >>]
           /\ IF workout_id = None \/ sets_list = << >>
              THEN /\ reply' = "stale"
                   /\ UNCHANGED call
              ELSE /\ call' = Append(call, [fn |-> "on_exercise_selected",
                                            workout_id |-> workout_id,
                                            sets |-> FlatSetsOr(name, sets_list)])
                   /\ reply' = "none"
    /\ last_text' = << >>
    /\ UNCHANGED << exercises_json, fsm_state, workouts, workout_exercises, exercises,
                    records, store_up, next_workout_id, next_we_id, new_records,
                    finished, alt_prompts, result >>

\* the rest of a delivery: add_workout_sets in its session, the commit and
\* the confirmation message
persist_confirmation ==
    /\ \E k \in 1..Len(call) :
          LET c  == call[k]
              db == Persist(Db, c.workout_id, c.sets)
          IN  /\ db.next_we_id <= MaxWorkoutExercises + 1
              /\ Len(db.exercises) <= Len(exercises_json) + MaxCustomExercises
              /\ exercises' = db.exercises
              /\ workout_exercises' = db.workout_exercises
              /\ next_we_id' = db.next_we_id
              /\ reply' = IF PersistRaises(c.workout_id, c.sets) THEN "exception"
                          ELSE "added_new"
              /\ call' = RemoveAt(call, k)
    /\ last_text' = << >>
    /\ UNCHANGED << exercises_json, fsm_state, data, workouts, records, store_up,
                    next_workout_id, new_records, finished, alt_prompts, result >>

NextConfirmTwice ==
    \/ on_program_selected
    \/ handle_text_blank_sets
    \/ begin_add_exercise_yes
    \/ begin_exercise_new
    \/ persist_confirmation

\* deployed with no catalog file, confirmations delivered more than once
SpecConfirmTwice == InitNoCatalog /\ [][NextConfirmTwice]_vars

\* ------------------------------------------------------------------------
\* A comment text whose handling overlaps a later button press: the handler
\* awaits the confirmation message before it writes the FSM state
\* ------------------------------------------------------------------------

\* handle_comment_input up to `await message.answer("✅ Комментарий добавлен")`
begin_comment_input ==
    /\ fsm_state = "waiting_comment"
    /\ Len(call) < MaxTasks
    /\ \E text \in CommentTexts :
          LET we_id == data.pending_comment_we_id
          IN  IF Strip(text) = << >>
              THEN /\ reply' = "comment_empty"
                   /\ UNCHANGED << fsm_state, workout_exercises, call >>
              ELSE IF we_id = None
              THEN /\ reply' = "comment_error"
                   /\ fsm_state' = "active"
                   /\ UNCHANGED << workout_exercises, call >>
              ELSE /\ workout_exercises' =
                          add_exercise_comment(workout_exercises, we_id, Strip(text))
                   /\ call' = Append(call, [fn |-> "handle_comment_input"])
                   /\ reply' = "none"
                   /\ UNCHANGED fsm_state
    /\ last_text' = << >>
    /\ UNCHANGED << exercises_json, data, workouts, exercises, records, store_up,
                    next_workout_id, next_we_id, new_records, finished, alt_prompts,
                    result >>

\* the rest of handle_comment_input, once the confirmation message is sent
end_comment_input ==
    /\ \E k \in 1..Len(call) :
          /\ call[k].fn = "handle_comment_input"
          /\ call' = RemoveAt(call, k)
    /\ fsm_state' = "active"
    /\ data' = [data EXCEPT !.pending_comment_we_id = None]
    /\ reply' = "comment_added"
    /\ last_text' = << >>
    /\ UNCHANGED << exercises_json, workouts, workout_exercises, exercises, records,
                    store_up, next_workout_id, next_we_id, new_records, finished,
                    alt_prompts, result >>

NextLateReply ==
    \/ on_program_selected
    \/ handle_text_blank_sets
    \/ on_add_comment
    \/ begin_comment_input
    \/ end_comment_input
    \/ finish_workout_handler
    \/ cancel_workout_handler

\* the comment sub-dialog with button presses handled while the comment
\* handler awaits Telegram
SpecLateReply == Init /\ [][NextLateReply]_vars

\* ------------------------------------------------------------------------
\* The record check called again on a workout it has already checked
\* ------------------------------------------------------------------------

MaxRecords == 5

RecordAnswers ==
    { JsonAnswer(<< [name |-> <<"a","b">>, sets |-> SetsLight] >>, FALSE, << >>),
      JsonAnswer(<< [name |-> <<"a","b">>, sets |-> SetsFive] >>, FALSE, << >>) }

handle_text_record_sets == fsm_state = "active" /\ TextDuringWorkout(RecordAnswers)

\* await check_and_save_records(workout_id), its session committed
call_check_and_save_records ==
    /\ \E workout_id \in 1..MaxWorkouts :
       \E entries \in check_and_save_records(workout_id) :
          /\ records' = records \o RecordRows(entries, UserId, workout_id)
          /\ Len(records') <= MaxRecords
          /\ call' = << [fn |-> "check_and_save_records", workout_id |-> workout_id] >>
          /\ result' = << entries >>
    /\ reply' = "none"
    /\ last_text' = << >>
    /\ UNCHANGED << exercises_json, fsm_state, data, workouts, workout_exercises,
                    exercises, store_up, next_workout_id, next_we_id, new_records,
                    finished, alt_prompts >>

NextRecordsTwice ==
    \/ on_program_selected
    \/ handle_text_record_sets
    \/ call_check_and_save_records

\* workouts filled by dictation, the record check called between messages
SpecRecordsTwice == Init /\ [][NextRecordsTwice]_vars

\* ------------------------------------------------------------------------
\* Direct calls of the pure functions match_exercise and calculate_1rm
\* ------------------------------------------------------------------------

\* a catalog as match_exercise receives it: each entry with an id (its index)
WithIds(raw) ==
    [i \in 1..Len(raw) |->
        [id |-> i - 1, name |-> raw[i].name, name_en |-> raw[i].name_en,
         synonyms |-> raw[i].synonyms]]

\* one catalog entry
Entry(name, name_en, synonyms) ==
    [name |-> name, name_en |-> name_en, synonyms |-> synonyms]

\* a catalog of seven entries whose localized names are all the same and
\* whose names all contain "b"
WideCatalog ==
    << Entry(<<"b", "1">>, <<"z">>, << >>), Entry(<<"b", "2">>, <<"z">>, << >>),
       Entry(<<"b", "3">>, <<"z">>, << >>), Entry(<<"b">>, <<"z">>, << >>),
       Entry(<<"b", "4">>, <<"z">>, << >>), Entry(<<"b", "5">>, <<"z">>, << >>),
       Entry(<<"b", "6">>, <<"z">>, << >>) >>

\* a catalog whose entries match a query in different tiers, the better
\* tiers later in the list
TierCatalog ==
    << Entry(<<"k">>, <<"m">>, << <<"a", "b">> >>), Entry(<<"k">>, <<"a", "b", "c">>, << >>),
       Entry(<<"a", "b", "d">>, <<"m">>, << >>), Entry(<<"k">>, <<"m">>, << <<"b">> >>),
       Entry(<<"A", "B">>, <<"m">>, << >>) >>

\* the catalogs match_exercise is called with: with localized names (the
\* file as it is) and as the handlers strip it
Catalogs ==
    { WithIds(<< GymCatalog[1] >>), WithIds(GymCatalog),
      _exercises_db_with_ids(GymCatalog), WithIds(WideCatalog),
      WithIds(TierCatalog), EmptyCatalog }

\* the names match_exercise is called with
Names ==
    { << >>, <<" ">>, <<"a", "b">>, <<" ", "A", "B", " ">>, <<"b">>, <<"a", "b", "c">>,
      <<"p">>, <<"P">>, <<"x">>, <<"q">>, <<"z">>, <<"c">> }

\* the arguments calculate_1rm is called with: reps, and weights in kg cents
RepsValues == (0 - 2)..12
WeightValues == { 0, Kg(80), Kg(85), 1360800, 3015000 }

InitFunctions == Init

call_match_exercise ==
    /\ \E exercise_name \in Names : \E exercises_db \in Catalogs :
          /\ call' = << [fn |-> "match_exercise", exercise_name |-> exercise_name,
                         exercises_db |-> exercises_db] >>
          /\ result' = << match_exercise(exercise_name, exercises_db) >>
    /\ UNCHANGED session_vars

call_calculate_1rm ==
    /\ \E reps \in RepsValues : \E weight \in WeightValues :
          /\ call' = << [fn |-> "calculate_1rm", reps |-> reps, weight |-> weight] >>
          /\ result' = << calculate_1rm(reps, weight) >>
    /\ UNCHANGED session_vars

\* round(x, 1) of the quotient n / d (d > 0) in tenths: the nearest tenth,
\* a tie going to the even one, as Python rounds a value that lies
\* exactly between two tenths
RoundTenth(n, d) ==
    LET q == (10 * n) \div d
        r == 10 * n - q * d
    IN  IF 2 * r < d THEN q
        ELSE IF 2 * r > d THEN q + 1
        ELSE IF q % 2 = 0 THEN q ELSE q + 1

\* _week_stats of get_week_comparison on the total_volume_kg of the week's
\* workouts: sum(float(w.total_volume_kg or 0))
_week_stats(totals) ==
    SumSeq([i \in 1..Len(totals) |-> IF totals[i] = None THEN 0 ELSE totals[i]])

\* a comparison that reports no change whenever the previous week is empty
get_week_comparison_flat(previous_week, current_week) ==
    LET prev_vol == _week_stats(previous_week)
        curr_vol == _week_stats(current_week)
    IN  IF prev_vol = 0 THEN 0
        ELSE RoundTenth(100 * (curr_vol - prev_vol), prev_vol)

\* bot/database/crud.py get_week_comparison: diff_percent in tenths of a
\* percent, from the total_volume_kg of the workouts of the two weeks
get_week_comparison(previous_week, current_week) ==
    LET prev_vol == _week_stats(previous_week)
        curr_vol == _week_stats(current_week)
    IN  IF prev_vol = 0
        THEN IF curr_vol > 0 THEN 1000 ELSE 0
        ELSE RoundTenth(100 * (curr_vol - prev_vol), prev_vol)

\* the total_volume_kg columns of the workouts of one week: no workout, a
\* workout without total, workouts of 3, 4, 16 and 17 kg, two workouts
WeekTotals ==
    { << >>, << None >>, << Kg(3) >>, << Kg(4) >>, << Kg(16) >>, << Kg(17) >>,
      << Kg(1), Kg(2) >>, << None, Kg(4) >> }

call_get_week_comparison ==
    /\ \E previous_week \in WeekTotals : \E current_week \in WeekTotals :
          /\ call' = << [fn |-> "get_week_comparison", previous_week |-> previous_week,
                         current_week |-> current_week] >>
          /\ result' = << get_week_comparison(previous_week, current_week) >>
    /\ UNCHANGED session_vars

NextFunctions ==
    \/ call_match_exercise
    \/ call_calculate_1rm
    \/ call_get_week_comparison

SpecFunctions == InitFunctions /\ [][NextFunctions]_vars

\* ------------------------------------------------------------------------
\* Claims
\* ------------------------------------------------------------------------

\* the catalog as the handlers see it
HandlerCatalog == _exercises_db_with_ids(exercises_json)

\* the rows a step appended to table workout_exercises
NewRows == SelectSeq(workout_exercises', LAMBDA we : we.id >= next_we_id)

\* the Set rows under which a list of parsed sets is stored
StoredSets(sets_list) == SetRows(FlatSets(<< >>, sets_list))

\* the model's answers that report one exercise whose name, as reported,
\* match_exercise puts in the disambiguation band (0.6 <= confidence < 0.9)
BandAnswers ==
    { a \in LlmAnswers :
        /\ a.kind = "json"
        /\ ~a.clarification_needed
        /\ Len(a.exercises) = 1
        /\ LET m == match_exercise(OrDefault(Strip(a.exercises[1].name)), HandlerCatalog)
           IN  m.confidence >= 60 /\ m.confidence < 90 }

StoredNow(e, workout_id) ==
    LET m == match_exercise(OrDefault(e.name), HandlerCatalog)
    IN  \E k \in 1..Len(NewRows) :
           /\ NewRows[k].workout_id = workout_id
           /\ exercises'[NewRows[k].exercise_id].name = Strip(m.name)
           /\ NewRows[k].sets = StoredSets(e.sets)

\* C10: when a text message is ingested during an active workout, every
\* candidate exercise of the parsed batch that resolves with confidence
\* >= 0.9 and has sets gets all its sets stored in that same step under the
\* resolved exercise, and the session stays active with the same workout.
C10_AutoAcceptPersists ==
    [][ ( /\ last_text' # << >>
          /\ fsm_state = "active"
          /\ WorkoutIdOf(data) # None
          /\ data.pending_clarification = << >> )
        => LET parsed == parse_workout_message(<<"x">>, HandlerCatalog, last_text'[1])
           IN  (~(parsed.clarification_needed /\ parsed.clarification_question # << >>))
               => /\ \A k \in 1..Len(parsed.exercises) :
                        ( /\ match_exercise(OrDefault(parsed.exercises[k].name),
                                            HandlerCatalog).confidence >= 90
                          /\ parsed.exercises[k].sets # << >> )
                        => StoredNow(parsed.exercises[k], WorkoutIdOf(data))
                  /\ fsm_state' = "active"
                  /\ data'.workout = data.workout
      ]_vars

\* the key of a Record row or of a new_records entry
SameKey(r, user_id, ex_id, record_type) ==
    /\ r.user_id = user_id
    /\ r.exercise_id = ex_id
    /\ r.record_type = record_type

\* the values stored in table records for one (user, exercise, kind)
StoredValues(stored, ex_id, record_type) ==
    { stored[k].value : k \in { j \in 1..Len(stored) :
                                  SameKey(stored[j], UserId, ex_id, record_type) } }

\* the Record rows a step added
AddedRecords == SubSeq(records', Len(records) + 1, Len(records'))

\* C3: checkRecords writes a new Record row only when the value computed from
\* the finished workout is strictly greater than the greatest value already
\* stored for the same (user, exercise, kind), after any sequence of finished
\* workouts.
C3_RecordOnlyWhenGreater ==
    [][ Len(records') > Len(records) =>
          \A i \in 1..Len(new_records') :
              \A v \in StoredValues(records, new_records'[i].exercise_id,
                                    new_records'[i].record_type) :
                  new_records'[i].value > v
      ]_vars

\* the sum of the volumes of the WorkoutExercises of a workout, an absent
\* volume counting as 0
WorkoutVolume(workout_id) ==
    LET rows == RowsOf(workout_exercises, workout_id)
    IN  SumSeq([k \in 1..Len(rows) |->
                  IF rows[k].volume_kg = None THEN 0 ELSE rows[k].volume_kg])

\* C4: after a workout is finished through the session state machine, the
\* stored total volume of the Workout equals the sum of the volumes of its
\* WorkoutExercises (a total left unset is accepted when that sum is 0).
C4_TotalVolumeOnFinish ==
    \A i \in 1..Len(workouts) :
        workouts[i].id \in finished =>
            (IF workouts[i].total_volume_kg = None THEN 0
             ELSE workouts[i].total_volume_kg) = WorkoutVolume(workouts[i].id)

\* C5: in every reachable state the order_num values of the WorkoutExercises
\* of one workout are exactly 0..n-1, with no duplicate and no gap.
C5_OrderNumContiguous ==
    \A w \in WorkoutIds :
        LET rows == RowsOf(workout_exercises, w)
        IN  /\ { rows[k].order_num : k \in 1..Len(rows) } = 0..(Len(rows) - 1)
            /\ \A j, k \in 1..Len(rows) :
                   rows[j].order_num = rows[k].order_num => j = k

\* C6: delete-last on a workout that has at least one WorkoutExercise
\* removes the WorkoutExercise that was appended most recently, with its
\* sets, and leaves every other WorkoutExercise unchanged.
C6_DeleteLastRemovesNewest ==
    [][ reply' = "deleted" =>
          LET rows == RowsOf(workout_exercises, WorkoutIdOf(data))
              last == rows[Len(rows)]
          IN  workout_exercises' =
                  SelectSeq(workout_exercises, LAMBDA we : we.id # last.id)
      ]_vars

\* weight x reps summed over the stored sets that have both
SetsVolume(we) ==
    SumSeq([k \in 1..Len(we.sets) |->
              IF we.sets[k].weight_kg # None /\ we.sets[k].reps # None
              THEN we.sets[k].weight_kg * we.sets[k].reps ELSE 0])

\* C7: in every reachable state the stored volume of every WorkoutExercise
\* equals the sum of weight x reps over its sets that have both, and is
\* unset when that sum is zero.
C7_VolumeMatchesSets ==
    \A k \in 1..Len(workout_exercises) :
        workout_exercises[k].volume_kg =
            (IF SetsVolume(workout_exercises[k]) = 0 THEN None
             ELSE SetsVolume(workout_exercises[k]))

\* the Record rows of one (user, exercise, kind)
RowsOfKey(ex_id, record_type) ==
    { k \in 1..Len(records) : SameKey(records[k], UserId, ex_id, record_type) }

\* the exercises that table exercises holds
ExerciseIds == 1..Len(exercises)

C9_NewRecordReported ==
    [][ finished' # finished /\ WorkoutIdOf(data) # None =>
          LET rows == RowsOf(workout_exercises, WorkoutIdOf(data))
          IN  \A k \in 1..Len(rows) : \A t \in 1..Len(RecordTypes) :
                LET v      == ComputedValue(rows[k], RecordTypes[t])
                    stored == StoredValues(records, rows[k].exercise_id, RecordTypes[t])
                IN  (v # None /\ \A s \in stored : s < v) =>
                      /\ \E i \in 1..Len(new_records') :
                            /\ new_records'[i].exercise_id = rows[k].exercise_id
                            /\ new_records'[i].record_type = RecordTypes[t]
                            /\ new_records'[i].value = v
                            /\ new_records'[i].previous_value = MaxOf(stored)
                      /\ \E i \in 1..Len(AddedRecords) :
                            /\ SameKey(AddedRecords[i], UserId, rows[k].exercise_id,
                                       RecordTypes[t])
                            /\ AddedRecords[i].value = RoundCent(v)
                            /\ AddedRecords[i].workout_id = WorkoutIdOf(data)
      ]_vars

\* C11: when a text message reports one exercise whose name resolves with
\* 0.6 <= confidence < 0.9 (nothing else being pending), the session enters
\* clarification: the alternatives prompt is shown, the candidate's sets are
\* remembered with an attempt counter of 1, and nothing is written to the
\* store in that step.
C11_BandEntersClarification ==
    [][ ( /\ last_text' # << >>
          /\ fsm_state = "active"
          /\ WorkoutIdOf(data) # None
          /\ data.pending_clarification = << >>
          /\ last_text'[1] \in BandAnswers )
        => /\ reply' = "alternatives"
           /\ data'.pending_clarification # << >>
           /\ data'.pending_clarification[1].attempts = 1
           /\ data'.pending_clarification[1].sets_list =
                  ParseItem(last_text'[1].exercises[1], HandlerCatalog).sets
           /\ UNCHANGED << workouts, workout_exercises, exercises, records >>
      ]_vars

\* the tables of the store
store == << workouts, workout_exercises, exercises, records >>

\* C12: when a text message is ingested during an active workout, for every
\* candidate exercise of the parsed batch that resolves with confidence < 0.6
\* nothing is persisted in that step, the candidate's name and sets are
\* remembered as pending and the add-as-new-exercise prompt is offered; when
\* the user then accepts, the remembered sets are stored as one new
\* WorkoutExercise.
C12_UnknownOffersNew ==
    [][ /\ ( /\ last_text' # << >>
             /\ fsm_state = "active"
             /\ WorkoutIdOf(data) # None
             /\ data.pending_clarification = << >> )
           => LET parsed == parse_workout_message(<<"x">>, HandlerCatalog, last_text'[1])
              IN  (~(parsed.clarification_needed /\ parsed.clarification_question # << >>))
                  => \A k \in 1..Len(parsed.exercises) :
                        match_exercise(OrDefault(parsed.exercises[k].name),
                                       HandlerCatalog).confidence < 60
                        => /\ UNCHANGED store
                           /\ reply' = "add_new_prompt"
                           /\ data'.pending_unknown_exercise =
                                 << [name      |-> OrDefault(parsed.exercises[k].name),
                                     sets_list |-> parsed.exercises[k].sets] >>
        /\ reply' = "added_new"
           => /\ data.pending_unknown_exercise # << >>
              /\ Len(NewRows) = 1
              /\ Len(NewRows[1].sets) = Len(data.pending_unknown_exercise[1].sets_list)
      ]_vars

\* the last direct call was a call of match_exercise
MatchCalled == call # << >> /\ call[1].fn = "match_exercise"

\* the candidate name equals, case-insensitively and trimmed, a name that
\* is present
SameName(norm_query, field) ==
    _normalize_name(field) # << >> /\ norm_query = _normalize_name(field)

\* the candidate name equals a name that is present, or one contains the other
Related(norm_query, field) ==
    /\ _normalize_name(field) # << >>
    /\ \/ norm_query = _normalize_name(field)
       \/ IsSubstr(norm_query, _normalize_name(field))
       \/ IsSubstr(_normalize_name(field), norm_query)

\* C13: for every catalog and every candidate name that equals,
\* case-insensitively and after trimming, the canonical or the localized name
\* of some catalog entry, match_exercise returns confidence 1.0 and an empty
\* list of alternatives, whatever other entries the catalog contains.
C13_ExactMatchNoAlternatives ==
    MatchCalled =>
        LET norm_query == _normalize_name(call[1].exercise_name)
            db         == call[1].exercises_db
        IN  ( /\ norm_query # << >>
              /\ \E i \in 1..Len(db) : \/ SameName(norm_query, db[i].name)
                                       \/ SameName(norm_query, db[i].name_en) )
            => /\ result[1].confidence = 100
               /\ result[1].alternatives = << >>

\* C14: for every non-empty candidate name and every catalog in which the
\* name neither equals nor is in a substring relation with any entry's
\* canonical name, localized name or synonym (entries may carry no localized
\* name and no synonyms), match_exercise returns confidence 0.0, no matched
\* id and no alternatives.
C14_UnrelatedNameMisses ==
    MatchCalled =>
        LET norm_query == _normalize_name(call[1].exercise_name)
            db         == call[1].exercises_db
        IN  ( /\ norm_query # << >>
              /\ \A i \in 1..Len(db) :
                    /\ ~Related(norm_query, db[i].name)
                    /\ ~Related(norm_query, db[i].name_en)
                    /\ \A k \in 1..Len(db[i].synonyms) :
                           ~Related(norm_query, db[i].synonyms[k]) )
            => /\ result[1].confidence = 0
               /\ result[1].exercise_id = None
               /\ result[1].alternatives = << >>

\* C15: for every candidate name and catalog, the alternatives returned by
\* match_exercise number at most 5, are ordered by non-increasing score,
\* never score above the best match, never include the best match itself,
\* and among equal scores keep catalog order (the best match being the first
\* entry of the catalog among those of its score).
C15_AlternativesRanked ==
    MatchCalled =>
        LET alts == result[1].alternatives
        IN  /\ Len(alts) <= 5
            /\ \A i, j \in 1..Len(alts) :
                  i < j => /\ alts[i].confidence >= alts[j].confidence
                           /\ alts[i].confidence = alts[j].confidence
                                => alts[i].exercise_id < alts[j].exercise_id
            /\ \A i \in 1..Len(alts) :
                  /\ alts[i].confidence <= result[1].confidence
                  /\ alts[i].exercise_id # result[1].exercise_id
                  /\ alts[i].confidence = result[1].confidence
                        => result[1].exercise_id < alts[i].exercise_id

\* C15 witness: seven entries match, the result carries five alternatives,
\* some of them with equal scores
C15_Witness ==
    /\ MatchCalled
    /\ Len(call[1].exercises_db) = 7
    /\ Len(result[1].alternatives) = 5
    /\ result[1].alternatives[1].confidence = result[1].alternatives[2].confidence
    /\ result[1].confidence > result[1].alternatives[1].confidence

\* index of the first catalog entry whose canonical or localized name equals
\* the candidate name (0 when there is none)
FirstSameName(norm_query, db) ==
    LET same == { i \in 1..Len(db) : \/ SameName(norm_query, db[i].name)
                                     \/ SameName(norm_query, db[i].name_en) }
    IN  IF same = {} THEN 0 ELSE CHOOSE i \in same : \A j \in same : i <= j

\* C13 (amended): for every catalog and every candidate name that equals,
\* case-insensitively and after trimming, the canonical or the localized name
\* of some catalog entry, match_exercise returns confidence 1.0 and the first
\* such entry of the catalog as the match; the alternatives are the other
\* entries the name matches (at most 5), so they are empty exactly when no
\* other entry matches.
C13_ExactMatchIsBest ==
    MatchCalled =>
        LET norm_query == _normalize_name(call[1].exercise_name)
            db         == call[1].exercises_db
            first      == FirstSameName(norm_query, db)
        IN  (norm_query # << >> /\ first # 0)
            => /\ result[1].confidence = 100
               /\ result[1].exercise_id = db[first].id
               /\ result[1].name = db[first].name
               /\ result[1].alternatives = << >>
                    <=> \A j \in 1..Len(db) :
                           j # first => CandidateOf(norm_query, db[j]) = << >>
               /\ \A k \in 1..Len(result[1].alternatives) :
                     \E j \in 1..Len(db) :
                        /\ j # first
                        /\ db[j].id = result[1].alternatives[k].exercise_id

\* C13 witness: the name equals the canonical name of the fourth entry of a
\* catalog whose other entries contain it; alternatives are returned
C13_Witness ==
    /\ MatchCalled
    /\ Len(call[1].exercises_db) = 7
    /\ _normalize_name(call[1].exercise_name) = <<"b">>
    /\ result[1].confidence = 100
    /\ result[1].exercise_id = 3
    /\ Len(result[1].alternatives) = 5

\* the last direct call was a call of calculate_1rm
OneRepMaxCalled == call # << >> /\ call[1].fn = "calculate_1rm"

\* C20: calculate_1rm(reps, weight) is the weight itself when reps <= 1
\* (zero and negative counts included) and weight * (1 + reps / 30) when
\* reps > 1, that is 30 * result = weight * (30 + reps).
C20_OneRepMaxEpley ==
    OneRepMaxCalled =>
        /\ call[1].reps <= 1 => result[1] = call[1].weight
        /\ call[1].reps > 1 => 30 * result[1] = call[1].weight * (30 + call[1].reps)

\* C20 witness: a call above the threshold, 5 repetitions of 85 kg give
\* 99.1666.. kg
C20_Witness ==
    /\ OneRepMaxCalled
    /\ call[1].reps = 5
    /\ call[1].weight = Kg(85)
    /\ result[1] = 2975000

\* C16: ingesting sets, deleting the last exercise, editing the last
\* exercise, confirming a pending exercise or finishing while the session
\* holds no workout reference reports "no active workout" and leaves the FSM
\* state, every field of the session data and the store as they were.
C16_NoWorkoutNoChange ==
    [][ ( /\ WorkoutIdOf(data) = None
          /\ \/ handle_text_during_workout
             \/ on_delete_last_exercise
             \/ on_edit_last_exercise
             \/ on_add_exercise_yes
             \/ finish_workout
             \/ finish_workout_handler )
        => /\ reply' = "no_workout"
           /\ UNCHANGED << fsm_state, data, store >> ]_vars

\* two lists of sets have the same length and, position by position, the
\* same reps and the same weight
SameSets(a, b) ==
    /\ Len(a) = Len(b)
    /\ \A i \in 1..Len(a) : a[i].reps = b[i].reps /\ a[i].weight_kg = b[i].weight_kg

\* the names a typed name can resolve to in handle_manual_exercise_name
ResolvedNames ==
    { LET matched == match_exercise(Strip(text), HandlerCatalog)
      IN  IF matched.name # << >> THEN matched.name ELSE Strip(text) :
      text \in { t \in Texts : Strip(t) # << >> } }

\* C17: after edit-last and the entry of a corrected name, the tail
\* WorkoutExercise of the workout references the exercise resolved from the
\* corrected name and has the same number of sets, with the same reps and
\* weight in the same order, as the WorkoutExercise that edit-last removed
\* (a weight of 0 or an absent weight included); the other WorkoutExercises
\* are unchanged and the session is Active again. Stated on the two steps:
\* edit-last keeps exactly the sets of the row it removes, and the corrected
\* name appends one row with exactly the kept sets.
C17_EditLastReplaysSets ==
    [][ /\ reply' = "ask_name"
           => \E k \in 1..Len(workout_exercises) :
                 /\ workout_exercises' = RemoveAt(workout_exercises, k)
                 /\ data'.pending_sets # << >>
                 /\ SameSets(workout_exercises[k].sets, data'.pending_sets[1])
        /\ (reply' = "corrected" /\ fsm_state = "waiting_exercise_name")
           => /\ Len(workout_exercises') = Len(workout_exercises) + 1
              /\ SubSeq(workout_exercises', 1, Len(workout_exercises)) = workout_exercises
              /\ LET we == workout_exercises'[Len(workout_exercises')]
                 IN  /\ we.workout_id = data.pending_workout_id
                     /\ SameSets(we.sets, data.pending_sets[1])
                     /\ \E name \in ResolvedNames :
                           we.exercise_id = ExerciseIdByName(exercises', name)
              /\ fsm_state' = "active" ]_vars

\* the Workout rows with a given id
WorkoutRow(table, workout_id) == SelectSeq(table, LAMBDA r : r.id = workout_id)

\* C18: after cancel the cancelled Workout row and all its WorkoutExercises
\* and Sets are absent from the store, the rows of every other workout are
\* unchanged, and the session holds no workout reference and no pending
\* data.
C18_CancelRemovesWorkout ==
    [][ (reply' = "cancelled" /\ WorkoutIdOf(data) # None)
        => LET workout_id == WorkoutIdOf(data)
           IN  /\ WorkoutRow(workouts', workout_id) = << >>
               /\ RowsOf(workout_exercises', workout_id) = << >>
               /\ \A other \in (1..MaxWorkouts) \ { workout_id } :
                     /\ WorkoutRow(workouts', other) = WorkoutRow(workouts, other)
                     /\ RowsOf(workout_exercises', other) = RowsOf(workout_exercises, other)
               /\ Len(workouts') = Len(workouts) - 1
               /\ WorkoutIdOf(data') = None
               /\ data' = EmptyData
               /\ fsm_state' = "none" ]_vars

\* C18 witness: the second workout was cancelled with an exercise recorded in
\* it; the first workout and its exercise are still stored
C18_Witness ==
    /\ reply = "cancelled"
    /\ next_workout_id = 3
    /\ Len(workouts) = 1
    /\ workouts[1].id = 1
    /\ Len(workout_exercises) = 1
    /\ workout_exercises[1].id = 1
    /\ workout_exercises[1].workout_id = 1
    /\ next_we_id = 3
    /\ data = EmptyData

WeekComparisonCalled == call # << >> /\ call[1].fn = "get_week_comparison"

\* C21: in the week comparison, when the previous week's total volume is 0
\* the percent delta is 100.0 if the current week's total volume is positive
\* and 0.0 if it is also 0; otherwise it is
\* (current - previous) / previous * 100.
C21_WeekDeltaExact ==
    WeekComparisonCalled =>
        LET prev_vol == _week_stats(call[1].previous_week)
            curr_vol == _week_stats(call[1].current_week)
        IN  /\ (prev_vol = 0 /\ curr_vol > 0) => result[1] = 1000
            /\ (prev_vol = 0 /\ curr_vol = 0) => result[1] = 0
            /\ prev_vol # 0 => result[1] * prev_vol = 1000 * (curr_vol - prev_vol)

\* C21 (amended): with a previous total of 0 the delta is 100.0 for a
\* positive current total and 0.0 for a current total of 0; otherwise it is
\* (current - previous) / previous * 100 rounded to one decimal place, so it
\* differs from the quotient by at most 0.05.
C21_WeekDeltaRounded ==
    WeekComparisonCalled =>
        LET prev_vol == _week_stats(call[1].previous_week)
            curr_vol == _week_stats(call[1].current_week)
            error    == result[1] * prev_vol - 1000 * (curr_vol - prev_vol)
        IN  /\ (prev_vol = 0 /\ curr_vol > 0) => result[1] = 1000
            /\ (prev_vol = 0 /\ curr_vol = 0) => result[1] = 0
            /\ prev_vol # 0 => /\ 2 * error <= prev_vol
                               /\ 2 * error >= 0 - prev_vol

\* C21 witness: a previous week without volume and a current week with
\* volume give 100.0
C21_Witness ==
    /\ WeekComparisonCalled
    /\ _week_stats(call[1].previous_week) = 0
    /\ call[1].previous_week # << >>
    /\ _week_stats(call[1].current_week) = Kg(4)
    /\ result[1] = 1000

\* the tier at which a catalog entry matches a name, in hundredths: equality
\* with the canonical or localized name, containment with the canonical
\* name, containment with the localized name, containment with a synonym;
\* 0 when it does not match. Only names that are present count.
TierOf(norm_query, ex) ==
    IF SameName(norm_query, ex.name) \/ SameName(norm_query, ex.name_en) THEN 100
    ELSE IF Related(norm_query, ex.name) THEN 90
    ELSE IF Related(norm_query, ex.name_en) THEN 85
    ELSE IF \E k \in 1..Len(ex.synonyms) : Related(norm_query, ex.synonyms[k]) THEN 80
    ELSE 0

\* C30: for every candidate name and catalog, match_exercise returns the
\* confidence of the highest tier matched by any catalog entry (1.0 for an
\* exact canonical or localized name, 0.9 for containment with the canonical
\* name, 0.85 for containment with the localized name, 0.8 for containment
\* with a synonym), and the matched id is that of an entry matching at that
\* tier.
C30_HighestTierWins ==
    MatchCalled =>
        LET norm_query == _normalize_name(call[1].exercise_name)
            db         == call[1].exercises_db
        IN  norm_query # << >>
            => /\ \A i \in 1..Len(db) : TierOf(norm_query, db[i]) <= result[1].confidence
               /\ result[1].confidence # 0
                    => \E i \in 1..Len(db) :
                          /\ TierOf(norm_query, db[i]) = result[1].confidence
                          /\ db[i].id = result[1].exercise_id

\* C22: a workout is never finished while a sub-dialog is unresolved: a
\* finish request takes effect only in plain Active, with no pending
\* clarification, no pending unknown-exercise confirmation and no pending
\* corrected-name entry, so that no pending candidate sets are lost by
\* finishing.
C22_FinishOnlyInPlainActive ==
    [][ reply' \in { "summary", "summary_no_data" }
        => /\ fsm_state = "active"
           /\ data.pending_clarification = << >>
           /\ data.pending_unknown_exercise = << >>
           /\ data.pending_sets = << >> ]_vars

\* C23: a record kind that has no computable value for a WorkoutExercise of
\* the finished workout is skipped: no Record of value 0 is ever written, in
\* particular no max_volume Record for an exercise whose sets carry no
\* weight.
C23_NoZeroRecord ==
    \A k \in 1..Len(records) : records[k].value # 0

\* C24: finishing a workout that has no recorded exercise is a no-op with a
\* note to the user: the session stays Active with the same workout
\* reference and pending data, and no Record is written.
C24_FinishEmptyIsNoOp ==
    [][ reply' = "summary_no_data"
        => /\ fsm_state' = "active"
           /\ data' = data
           /\ records' = records ]_vars

\* C25: when a call to the language model or to the database fails in the
\* middle of a transition (ingest, confirm add-as-new, create-new, pick
\* alternative, edit-last), the session data (workout reference, pending
\* candidate sets, attempt counter) and the store are the same as before
\* the transition, so that the user can retry the same action.
C25_FailureLeavesPriorState ==
    [][ /\ (reply' = "exception" /\ ~store_up)
           => UNCHANGED << fsm_state, data, store >>
        /\ ( /\ last_text' = << [kind |-> "error"] >>
             /\ WorkoutIdOf(data) # None
             /\ data.pending_clarification = << >> )
           => UNCHANGED << fsm_state, data, store >> ]_vars

\* the custom exercises the current workout already holds rows of: the
\* exercises created in this session by an accepted add-as-new or create-new
SessionCustomExercises ==
    { e \in { exercises[k] : k \in 1..Len(exercises) } :
        /\ e.is_custom
        /\ \E i \in 1..Len(workout_exercises) :
              /\ workout_exercises[i].workout_id = WorkoutIdOf(data)
              /\ workout_exercises[i].exercise_id = e.id }

\* C26: once a custom exercise was created in the session, a later text
\* message that reports one exercise of the same name is resolved to that
\* exercise and recorded at once: the reply is the confirmation and one row
\* of that exercise is appended, with no prompt shown again
C26_CustomExerciseIsReused ==
    [][ \A e \in SessionCustomExercises :
          ( /\ fsm_state = "active"
            /\ store_up
            /\ data.pending_clarification = << >>
            /\ last_text' # << >>
            /\ last_text'[1].kind = "json"
            /\ ~last_text'[1].clarification_needed
            /\ Len(last_text'[1].exercises) = 1
            /\ OrDefault(Strip(last_text'[1].exercises[1].name)) = e.name )
          => /\ reply' = "recorded"
             /\ Len(NewRows) = 1
             /\ NewRows[1].exercise_id = e.id ]_vars

\* the rows a commit step made visible in table workout_exercises
CommittedRows ==
    SubSeq(workout_exercises', Len(workout_exercises) + 1, Len(workout_exercises'))

\* C27: when a call that appends a WorkoutExercise commits after it has
\* overlapped with another such call on the same workout, its row takes the
\* next free position of the workout: its order_num is the number of rows
\* the workout held before, so no order_num is assigned twice and none is
\* left out
C27_OverlapKeepsOrder ==
    [][ \A k \in 1..Len(call) :
          ( /\ Len(call') < Len(call)
            /\ call[k].pc = "flushed"
            /\ call[k].overlapped
            /\ CommittedRows = call[k].rows )
          => \A i \in 1..Len(CommittedRows) :
                CommittedRows[i].order_num =
                    Len(RowsOf(workout_exercises, call[k].workout_id)) + i - 1 ]_vars

\* C28: whenever the parsed message carries clarification_needed = TRUE,
\* with or without a question text and with or without exercises, the text
\* step persists nothing and leaves every pending field of the session as
\* it was
C28_ClarificationPassesThrough ==
    [][ ( /\ last_text' # << >>
          /\ last_text'[1].kind = "json"
          /\ last_text'[1].clarification_needed )
        => /\ UNCHANGED << workouts, workout_exercises, exercises, records >>
           /\ data'.pending_clarification = data.pending_clarification
           /\ data'.pending_unknown_exercise = data.pending_unknown_exercise
           /\ data'.pending_sets = data.pending_sets
           /\ data'.pending_workout_id = data.pending_workout_id ]_vars

\* sets that do not make a record: no set at all, or a set with neither
\* reps nor weight and no duration in its comment
MalformedSets(sets) ==
    \/ sets = << >>
    \/ \E i \in 1..Len(sets) :
          /\ sets[i].reps = None
          /\ sets[i].weight = None
          /\ ~IsDuration(sets[i].comment)

\* C29: a text step whose first candidate has malformed sets is answered
\* with the request to rephrase; it writes no row and changes no session
\* field
C29_MalformedSetsRejected ==
    [][ ( /\ fsm_state = "active"
          /\ WorkoutIdOf(data) \in WorkoutIds
          /\ data.pending_clarification = << >>
          /\ last_text' # << >>
          /\ last_text'[1].kind = "json"
          /\ ~last_text'[1].clarification_needed
          /\ last_text'[1].exercises # << >>
          /\ MalformedSets(last_text'[1].exercises[1].sets) )
        => /\ reply' = "not_parsed"
           /\ UNCHANGED << workouts, workout_exercises, exercises, records >>
           /\ data' = data ]_vars

\* C31: a text message has just reported one exercise whose name resolves
\* in the disambiguation band, and the user presses a confirmation button of
\* the prompt ("create new"): the reply is the added-as-new confirmation,
\* one WorkoutExercise holding the reported sets is appended under the
\* exercise named as reported, no clarification stays pending and the
\* session is active
C31_CreateNewStoresPending ==
    [][ ( /\ last_text # << >>
          /\ last_text[1] \in BandAnswers
          /\ fsm_state = "active"
          /\ WorkoutIdOf(data) \in WorkoutIds
          /\ last_text' = << >>
          /\ reply' \in { "stale", "added_new" } )
        => /\ reply' = "added_new"
           /\ Len(NewRows) = 1
           /\ NewRows[1].workout_id = WorkoutIdOf(data)
           /\ exercises'[NewRows[1].exercise_id].name =
                  OrDefault(Strip(last_text[1].exercises[1].name))
           /\ Len(NewRows[1].sets) = Len(last_text[1].exercises[1].sets)
           /\ data'.pending_clarification = << >>
           /\ fsm_state' = "active" ]_vars

\* the last step was a direct call of remove_last_set
RemoveLastSetCalled ==
    /\ reply' = "none"
    /\ call' # << >>
    /\ call'[1].fn = "remove_last_set"

\* sum of weight x reps over the sets that carry both, None when it is zero
VolumeOfSets(sets) ==
    LET total == SumSeq([i \in 1..Len(sets) |->
                     IF sets[i].weight_kg # None /\ sets[i].reps # None
                     THEN sets[i].weight_kg * sets[i].reps ELSE 0])
    IN  IF total = 0 THEN None ELSE total

NewestRows ==
    { k \in 1..Len(workout_exercises) :
        /\ workout_exercises[k].workout_id = WorkoutIdOf(data)
        /\ \A j \in 1..Len(workout_exercises) :
              workout_exercises[j].workout_id = WorkoutIdOf(data)
              => workout_exercises[j].id <= workout_exercises[k].id }

\* C33: when a comment is accepted in the comment sub-dialog, it is written
\* to the WorkoutExercise of the active workout that is the most recently
\* appended one at that moment, every other row stays as it was, and the
\* session is active again
C33_CommentGoesToNewest ==
    [][ reply' = "comment_added" =>
          /\ fsm_state' = "active"
          /\ UNCHANGED << workouts, exercises, records >>
          /\ Len(workout_exercises') = Len(workout_exercises)
          /\ \E k \in NewestRows :
                /\ workout_exercises'[k].comment # << >>
                /\ workout_exercises'[k] =
                      [workout_exercises[k] EXCEPT !.comment = workout_exercises'[k].comment]
                /\ \A j \in 1..Len(workout_exercises) :
                      j # k => workout_exercises'[j] = workout_exercises[j] ]_vars

\* C34: after a text step on a parsed batch, every candidate exercise of
\* the batch is either persisted in that step (a new WorkoutExercise with
\* its sets) or remembered as pending, in pending_unknown_exercise or in
\* pending_clarification, for a later decision of the user
C34_NoCandidateDiscarded ==
    [][ ( /\ last_text' # << >>
          /\ last_text'[1].kind = "json"
          /\ fsm_state = "active"
          /\ WorkoutIdOf(data) \in WorkoutIds
          /\ data.pending_clarification = << >> )
        => LET parsed == parse_workout_message(<<"x">>, HandlerCatalog, last_text'[1])
           IN  (~(parsed.clarification_needed /\ parsed.clarification_question # << >>))
               => \A k \in 1..Len(parsed.exercises) :
                     LET name == OrDefault(parsed.exercises[k].name)
                         sets == parsed.exercises[k].sets
                     IN  \/ \E i \in 1..Len(NewRows) :
                               NewRows[i].sets = StoredSets(sets)
                         \/ /\ data'.pending_unknown_exercise # << >>
                            /\ data'.pending_unknown_exercise[1].name = name
                            /\ data'.pending_unknown_exercise[1].sets_list = sets
                         \/ /\ data'.pending_clarification # << >>
                            /\ data'.pending_clarification[1].name = name
                            /\ data'.pending_clarification[1].sets_list = sets ]_vars

\* C35: a new workout has just replaced the one under which candidate sets
\* were remembered as pending (unknown-exercise confirmation or
\* clarification); a button press that follows, such as the acceptance of
\* the older prompt, appends no WorkoutExercise to the new workout
C35_PendingStaysWithItsWorkout ==
    [][ ( /\ reply = "workout_started"
          /\ \/ data.pending_unknown_exercise # << >>
             \/ data.pending_clarification # << >>
          /\ last_text' = << >> )
        => \A i \in 1..Len(NewRows) : NewRows[i].workout_id # WorkoutIdOf(data) ]_vars

\* C36: a confirmation delivered twice for one pending batch, also while the
\* first delivery is still writing, persists the batch exactly once: a
\* delivery starts writing only when the batch is still pending, it takes the
\* whole batch and leaves nothing pending for the next delivery; a started
\* delivery appends one entry of its workout holding all of its sets; no
\* other step writes an entry
C36_ConfirmationPersistsOnce ==
    [][ /\ Len(call') > Len(call) =>
             LET c == call'[Len(call')]
                 pending == IF c.fn = "on_add_exercise_yes"
                            THEN data.pending_unknown_exercise
                            ELSE data.pending_clarification
             IN  /\ call' = Append(call, c)
                 /\ pending # << >>
                 /\ c.workout_id = WorkoutIdOf(data)
                 /\ c.sets = FlatSetsOr(OrDefault(Strip(pending[1].name)),
                                        pending[1].sets_list)
                 /\ c.sets # << >>
                 /\ IF c.fn = "on_add_exercise_yes"
                    THEN data'.pending_unknown_exercise = << >>
                    ELSE data'.pending_clarification = << >>
        /\ Len(call') < Len(call) =>
             \E k \in 1..Len(call) :
                 /\ call' = RemoveAt(call, k)
                 /\ reply' = "added_new"
                 /\ Len(NewRows) = 1
                 /\ workout_exercises' = workout_exercises \o NewRows
                 /\ NewRows[1].workout_id = call[k].workout_id
                 /\ Len(NewRows[1].sets) = Len(call[k].sets)
        /\ Len(call') = Len(call) => workout_exercises' = workout_exercises ]_vars

\* the second delivery was answered as out of date while the first one has
\* not yet written its entry
C36_Witness ==
    /\ Len(call) = 1
    /\ call[1].fn = "on_add_exercise_yes"
    /\ reply = "stale"
    /\ data.pending_unknown_exercise = << >>

\* the workouts that were finished, and those that were cancelled (their row
\* is gone)
EndedWorkouts ==
    { w \in 1..MaxWorkouts : w \in finished \/ (w < next_workout_id /\ w \notin WorkoutIds) }

C38_SessionHasItsWorkout ==
    fsm_state \in { "active", "waiting_exercise_name", "waiting_comment" }
        => /\ WorkoutIdOf(data) # None
           /\ WorkoutIdOf(data) \in WorkoutIds

\* C39: when check_and_save_records is called twice in a row for the same
\* workout, nothing in between, the second call writes no Record row and
\* returns no new record
C39_SecondCheckFindsNothing ==
    [][ ( /\ reply = "none"
          /\ Len(call) = 1
          /\ call[1].fn = "check_and_save_records"
          /\ reply' = "none"
          /\ call' = call )
        => /\ records' = records
           /\ result' = << << >> >> ]_vars

====
